---- MODULE Spec2Model ----
(***************************************************************************)
(* Genetic-algorithm engine for the multi-vehicle routing problem:         *)
(* chromosome encoding (chromosome.py), genetic operators (operators.py),  *)
(* fitness (fitness.py), evolution engine (ga_engine.py) and genealogy     *)
(* logger (logger.py).                                                     *)
(*                                                                         *)
(* Three specifications share the module:                                  *)
(*   SpecRepair  Chromosome.repair applied to arbitrary gene sequences     *)
(*   SpecCross   the two crossover operators applied to valid parents      *)
(*   Spec        the engine: construction, run(), the generation loop      *)
(* None / null is modelled as 0 for ids (ids start at 1) and as "none"     *)
(* for the mutation tag.  Random draws are nondeterministic choices.       *)
(***************************************************************************)
EXTENDS Integers, Sequences, FiniteSets, TLC

VARIABLES
    fn,         \* harness: name of the function applied last ("none" before)
    fin,        \* harness: its inputs
    fout,       \* harness: its outputs (a sequence of chromosomes)
    pc,         \* engine: position in __init__ / run()
    cfg,        \* engine: self.config plus num_points / num_vehicles
    population, \* engine: self.population
    new_population, \* engine: local new_population of evolve_generation
    children,   \* engine: locals child1, child2 of evolve_generation
    best_chromosome, \* engine: self.best_chromosome (NoChromosome = None)
    current_generation, \* engine: self.current_generation
    generations_without_improvement, \* engine: stagnation counter
    logger,     \* engine: the GeneticLogger's counters, genealogy and records
    callbacks,  \* engine: the calls made to generation_callback so far
    last_elite, \* engine: the elite slice taken by the latest evolve_generation
    error       \* engine: the exception that ended run(), "" if none

vars == <<fn, fin, fout, pc, cfg, population, new_population, children, best_chromosome,
          current_generation, generations_without_improvement, logger,
          callbacks, last_elite, error>>

harnessVars == <<fn, fin, fout>>

engineVars == <<pc, cfg, population, new_population, children, best_chromosome,
                current_generation, generations_without_improvement, logger,
                callbacks, last_elite, error>>

----------------------------------------------------------------------------
(* Bounds of the model *)

MaxPoints == 3

MaxVehicles == 3

MaxGenes == 4

\* fitness values 1..MaxFitness of the populations handed to a selection
MaxFitness == 3

\* longest gene list, and largest population, handed to calculate_diversity
MaxDiversityGenes == 2

MaxDiversityPopulation == 3

\* point weights 1..MaxPointWeight kg, and the extra kg put on one point,
\* of the instances handed to calculate_fitness
MaxPointWeight == 3

----------------------------------------------------------------------------
(* Generic helpers *)

SEP == -1

INF == [num |-> 1, den |-> 0]

Range(s) == {s[i] : i \in 1..Len(s)}

Min2(a, b) == IF a < b THEN a ELSE b

Max2(a, b) == IF a > b THEN a ELSE b

\* Python slice s[a:b] with 0-based, end-exclusive indices (clamped)
Slice(s, a, b) ==
    LET lo == Max2(a, 0)
        hi == Min2(b, Len(s))
    IN  IF hi <= lo THEN <<>> ELSE SubSeq(s, lo + 1, hi)

RECURSIVE SumSeq(_)
SumSeq(s) == IF s = <<>> THEN 0 ELSE Head(s) + SumSeq(Tail(s))

RECURSIVE Flatten(_)
Flatten(ss) == IF ss = <<>> THEN <<>> ELSE Head(ss) \o Flatten(Tail(ss))

\* all orderings of a finite set (the outcomes of random.shuffle)
RECURSIVE Orderings(_)
Orderings(S) ==
    IF S = {} THEN {<<>>}
    ELSE UNION {{<<x>> \o o : o \in Orderings(S \ {x})} : x \in S}

\* all sequences over S of length 0..n
SeqsUpTo(S, n) == UNION {[1..k -> S] : k \in 0..n}

Count(s, x) == Cardinality({i \in 1..Len(s) : s[i] = x})

----------------------------------------------------------------------------
(* chromosome.py *)

Chromosome(genes, num_vehicles) ==
    [genes |-> genes, num_vehicles |-> num_vehicles, fitness |-> INF,
     generation |-> 0, parent1_id |-> 0, parent2_id |-> 0,
     mutation_applied |-> "none", id |-> 0]

NoChromosome == Chromosome(<<>>, 0)

RECURSIVE SplitRoutes(_, _, _)
SplitRoutes(genes, routes, current_route) ==
    IF genes = <<>>
    THEN IF current_route # <<>> THEN Append(routes, current_route) ELSE routes
    ELSE IF Head(genes) = SEP
         THEN IF current_route # <<>>
              THEN SplitRoutes(Tail(genes), Append(routes, current_route), <<>>)
              ELSE SplitRoutes(Tail(genes), routes, current_route)
         ELSE SplitRoutes(Tail(genes), routes, Append(current_route, Head(genes)))

\* the route still open at the end of the genes is not added
get_routes_DropLast(genes) ==
    LET routes == SplitRoutes(genes, <<>>, <<>>)
    IN  IF genes # <<>> /\ genes[Len(genes)] # SEP
        THEN SubSeq(routes, 1, Len(routes) - 1)
        ELSE routes

get_routes(genes) == SplitRoutes(genes, <<>>, <<>>)

get_points(genes) == SelectSeq(genes, LAMBDA g : g # SEP)

is_valid(genes) ==
    LET points == get_points(genes)
    IN  /\ Len(points) = Cardinality(Range(points))
        /\ \A i \in 1..(Len(genes) - 1) : ~(genes[i] = SEP /\ genes[i + 1] = SEP)

\* lines 111-118: drop every repeated point, keep every separator
RECURSIVE RemoveDuplicates(_, _)
RemoveDuplicates(genes, seen) ==
    IF genes = <<>> THEN <<>>
    ELSE IF Head(genes) = SEP
         THEN <<SEP>> \o RemoveDuplicates(Tail(genes), seen)
         ELSE IF Head(genes) \in seen
              THEN RemoveDuplicates(Tail(genes), seen)
              ELSE <<Head(genes)>> \o RemoveDuplicates(Tail(genes), seen \cup {Head(genes)})

\* lines 132-134: append the missing points, in order, to the chosen routes
RECURSIVE DistributeMissing(_, _, _)
DistributeMissing(routes, missing, route_idx) ==
    IF missing = <<>> THEN routes
    ELSE DistributeMissing(
            [routes EXCEPT ![Head(route_idx)] = Append(@, Head(missing))],
            Tail(missing), Tail(route_idx))

\* lines 137-141: routes joined by one separator
RECURSIVE JoinRoutes(_)
JoinRoutes(routes) ==
    IF routes = <<>> THEN <<>>
    ELSE IF Len(routes) = 1 THEN Head(routes)
         ELSE Head(routes) \o <<SEP>> \o JoinRoutes(Tail(routes))

\* lines 146-155: drop leading and repeated separators
RECURSIVE CleanSeparators(_, _, _)
CleanSeparators(genes, cleaned, prev_was_sep) ==
    IF genes = <<>> THEN cleaned
    ELSE IF Head(genes) = SEP
         THEN IF ~prev_was_sep /\ cleaned # <<>>
              THEN CleanSeparators(Tail(genes), Append(cleaned, SEP), TRUE)
              ELSE CleanSeparators(Tail(genes), cleaned, prev_was_sep)
         ELSE CleanSeparators(Tail(genes), Append(cleaned, Head(genes)), FALSE)

\* a trailing separator is kept
DropTrailingSeparator_Keep(cleaned) == cleaned

\* lines 158-159: drop one trailing separator
DropTrailingSeparator(cleaned) ==
    IF cleaned # <<>> /\ cleaned[Len(cleaned)] = SEP
    THEN SubSeq(cleaned, 1, Len(cleaned) - 1)
    ELSE cleaned

\* lines 120-141: the rebuilt gene lists, one per shuffle and route choice.
\* The routes are taken from the chromosome's own genes (self.get_routes()),
\* not from the de-duplicated new_genes.
RebuiltGenes(genes, missing) ==
    LET own == get_routes(genes)
        routes == IF own = <<>> THEN << <<>> >> ELSE own
    IN  {JoinRoutes(DistributeMissing(routes, order, route_idx)) :
            order \in Orderings(missing),
            route_idx \in [1..Cardinality(missing) -> 1..Len(routes)]}

\* Chromosome.repair: the set of gene lists it can leave in self.genes
repair(genes, num_points) ==
    LET current_points == get_points(genes)
        missing == (0..(num_points - 1)) \ Range(current_points)
        new_genes == IF missing # {}
                     THEN RebuiltGenes(genes, missing)
                     ELSE {RemoveDuplicates(genes, {})}
    IN  {DropTrailingSeparator(CleanSeparators(g, <<>>, FALSE)) : g \in new_genes}

\* Chromosome.copy: everything but the id is copied
copy(c) == [c EXCEPT !.id = 0]

\* every point 0..num_points-1 occurs exactly once among the genes
ExactlyOnce(genes, num_points) ==
    /\ \A p \in 0..(num_points - 1) : Count(genes, p) = 1
    /\ Range(get_points(genes)) \subseteq 0..(num_points - 1)

NoStraySeparators(genes) ==
    /\ \A i \in 1..(Len(genes) - 1) : ~(genes[i] = SEP /\ genes[i + 1] = SEP)
    /\ genes # <<>> => (genes[1] # SEP /\ genes[Len(genes)] # SEP)

----------------------------------------------------------------------------
(* operators.py: crossover *)

\* the cut points random.randint can return; an empty set is the ValueError
\* randint raises on an empty range
OXCutPoints(size) ==
    {<<cx_point1, cx_point2>> \in (0..(size - 1)) \X (1..size) : cx_point2 > cx_point1}

PMXCutPoints(size) ==
    {<<cx_point1, cx_point2>> \in (0..(size - 2)) \X (1..size) : cx_point2 > cx_point1}

\* a placement that closes a route after every point
RECURSIVE SliceByRoutes_EveryPoint(_, _, _, _)
SliceByRoutes_EveryPoint(points, parent_routes, total_points, start) ==
    IF start >= Len(points) - 1 THEN Slice(points, start, Len(points))
    ELSE Slice(points, start, start + 1) \o <<SEP>>
            \o SliceByRoutes_EveryPoint(points, parent_routes, total_points, start + 1)

\* lines 132-139: slice the points by the parent's route sizes.  count is
\* max(1, int(len(points) * prop)) with prop = len(route) / total_points; the
\* product is taken exactly (the float product first differs from it at
\* total_points = 22, beyond the sizes explored here).
RECURSIVE SliceByRoutes(_, _, _, _)
SliceByRoutes(points, parent_routes, total_points, start) ==
    IF Len(parent_routes) <= 1 THEN Slice(points, start, Len(points))
    ELSE LET count == Max2(1, (Len(points) * Len(Head(parent_routes))) \div total_points)
         IN  Slice(points, start, start + count) \o <<SEP>>
                \o SliceByRoutes(points, Tail(parent_routes), total_points, start + count)

add_separators_from_parent(points, parent) ==
    LET parent_routes == get_routes(parent.genes)
    IN  IF parent_routes = <<>> THEN points
        ELSE SliceByRoutes(points, parent_routes,
                           SumSeq([i \in 1..Len(parent_routes) |-> Len(parent_routes[i])]), 0)

\* a crossover child before repair: fresh Chromosome carrying both parent ids
Offspring(genes, num_vehicles, parent1, parent2) ==
    [Chromosome(genes, num_vehicles) EXCEPT !.parent1_id = parent1.id,
                                            !.parent2_id = parent2.id]

\* the pairs of children left after child1.repair(len(points1)) and
\* child2.repair(len(points2))
RepairedChildren(child1_genes, child2_genes, parent1, parent2) ==
    {<<Offspring(g1, parent1.num_vehicles, parent1, parent2),
       Offspring(g2, parent2.num_vehicles, parent1, parent2)>> :
        g1 \in repair(child1_genes, Len(get_points(parent1.genes))),
        g2 \in repair(child2_genes, Len(get_points(parent2.genes)))}

\* faulty variant: the fill is filtered against the other parent's segment
OXChildPoints_WrongSet(own, other, cx_point1, cx_point2) ==
    LET middle == Slice(own, cx_point1, cx_point2)
        rest == SelectSeq(other, LAMBDA p : p \notin Range(Slice(other, cx_point1, cx_point2)))
    IN  Slice(rest, 0, cx_point1) \o middle \o Slice(rest, cx_point1, Len(rest))

\* lines 66-76: the segment of `own` at [cx1, cx2) spliced at cx1 into the
\* points of `other` that are not in the segment
OXChildPoints(own, other, cx_point1, cx_point2) ==
    LET middle == Slice(own, cx_point1, cx_point2)
        rest == SelectSeq(other, LAMBDA p : p \notin Range(middle))
    IN  Slice(rest, 0, cx_point1) \o middle \o Slice(rest, cx_point1, Len(rest))

order_crossover_vrp(parent1, parent2, cx_point1, cx_point2) ==
    LET points1 == get_points(parent1.genes)
        points2 == get_points(parent2.genes)
        child1_points == OXChildPoints(points1, points2, cx_point1, cx_point2)
        child2_points == OXChildPoints(points2, points1, cx_point1, cx_point2)
    IN  RepairedChildren(add_separators_from_parent(child1_points, parent1),
                         add_separators_from_parent(child2_points, parent2),
                         parent1, parent2)

\* lines 174-178: mapping[keys[i]] = vals[i] for i in [cx1, cx2), a later
\* index overwriting an earlier one
SegmentMapping(keys, vals, cx_point1, cx_point2) ==
    LET idx == (cx_point1 + 1)..cx_point2
    IN  [k \in {keys[i] : i \in idx} |->
            vals[CHOOSE i \in idx : keys[i] = k /\ \A j \in idx : keys[j] = k => j <= i]]

HANG == -2

\* lines 184-185 / 190-191: while val in mapping: val = mapping[val].
\* A chain that returns to a visited value never ends (HANG).
RECURSIVE FollowMapping(_, _, _)
FollowMapping(val, mapping, visited) ==
    IF val \notin DOMAIN mapping THEN val
    ELSE IF val \in visited THEN HANG
         ELSE FollowMapping(mapping[val], mapping, visited \cup {val})

\* lines 166-192: the point list of one PMX child.  `own` gives the copied
\* segment, `other` the values outside it, chased through the mapping whose
\* keys are the other parent's segment values.
PMXChildPoints(own, other, cx_point1, cx_point2) ==
    LET mapping == SegmentMapping(other, own, cx_point1, cx_point2)
    IN  [i \in 1..Len(own) |->
            IF i > cx_point1 /\ i <= cx_point2 THEN own[i]
            ELSE FollowMapping(other[i], mapping, {})]

\* how the body of partially_mapped_crossover_vrp ends for given cut points:
\* points2[i] is read for every i < size, an IndexError when parent2 has
\* fewer points than parent1
PMXOutcome(parent1, parent2, cx_point1, cx_point2) ==
    LET points1 == get_points(parent1.genes)
        points2 == get_points(parent2.genes)
    IN  IF Len(points2) < Len(points1) THEN "IndexError"
        ELSE LET p2 == SubSeq(points2, 1, Len(points1))
             IN  IF HANG \in Range(PMXChildPoints(points1, p2, cx_point1, cx_point2))
                        \cup Range(PMXChildPoints(p2, points1, cx_point1, cx_point2))
                 THEN "hang"
                 ELSE "ok"

partially_mapped_crossover_vrp(parent1, parent2, cx_point1, cx_point2) ==
    LET points1 == get_points(parent1.genes)
        points2 == get_points(parent2.genes)
        size == Len(points1)
        child1_points == PMXChildPoints(points1, SubSeq(points2, 1, size),
                                        cx_point1, cx_point2)
        child2_points == PMXChildPoints(SubSeq(points2, 1, size), points1,
                                        cx_point1, cx_point2)
    IN  RepairedChildren(add_separators_from_parent(child1_points, parent1),
                         add_separators_from_parent(child2_points, parent2),
                         parent1, parent2)

----------------------------------------------------------------------------
(* fitness.py.  Fitness values are exact rationals [num, den] in lowest    *)
(* terms (the code uses floats); float('inf') is [num |-> 1, den |-> 0].   *)

RECURSIVE GCD(_, _)
GCD(a, b) == IF b = 0 THEN a ELSE GCD(b, a % b)

Rat(n, d) ==
    LET g == GCD(IF n < 0 THEN -n ELSE n, d)
    IN  IF g = 0 THEN [num |-> n, den |-> d] ELSE [num |-> n \div g, den |-> d \div g]

RatInt(n) == [num |-> n, den |-> 1]

RatAdd(a, b) == Rat(a.num * b.den + b.num * a.den, a.den * b.den)

RatScale(k, a) == Rat(k * a.num, a.den)

\* Chromosome.__lt__: self.fitness < other.fitness
RatLess(a, b) == a.num * b.den < b.num * a.den

RECURSIVE RatSum(_)
RatSum(s) == IF s = <<>> THEN RatInt(0) ELSE RatAdd(Head(s), RatSum(Tail(s)))

\* The problem instance handed to the engine: delivery points 0..n-1, the
\* vehicles 0..v-1 and the precomputed distance cache.
PointWeightKg(p) == p + 2

PointVolumeM3(p) == 2 - (p % 2)

PointPriority(p) == IF p = 0 THEN "alto" ELSE IF p = 1 THEN "critico" ELSE "medio"

VehicleCapacityKg(v) == 5 + v

VehicleCapacityVolumeM3(v) == 3 + v

VehicleAutonomyKm(v) == 9 + v

DepotDistance(p) == p + 2

PointDistance(i, j) == IF i < j THEN 2 * (j - i) + 1 ELSE 2 * (i - j) + 1

DefaultFitnessWeights ==
    [distance |-> 1, capacity |-> 10, autonomy |-> 10, priority |-> 5,
     balance |-> 2, num_vehicles |-> 3]

FitnessWeightKeys ==
    {"distance", "capacity", "autonomy", "priority", "balance", "num_vehicles"}

\* get_distance: the cache lookup, 0 for a key that was never cached
get_distance(from_idx, to_idx, num_points) ==
    IF from_idx = SEP
    THEN IF to_idx \in 0..(num_points - 1) THEN DepotDistance(to_idx) ELSE 0
    ELSE IF to_idx = SEP
         THEN IF from_idx \in 0..(num_points - 1) THEN DepotDistance(from_idx) ELSE 0
         ELSE IF from_idx # to_idx /\ {from_idx, to_idx} \subseteq 0..(num_points - 1)
              THEN PointDistance(from_idx, to_idx)
              ELSE 0

\* the way out only: the leg back to the depot is left out
RouteDistance_OneWay(route, num_points) ==
    get_distance(SEP, route[1], num_points)
    + SumSeq([i \in 1..(Len(route) - 1) |-> get_distance(route[i], route[i + 1], num_points)])

\* lines 146-149
RouteDistance(route, num_points) ==
    get_distance(SEP, route[1], num_points)
    + SumSeq([i \in 1..(Len(route) - 1) |-> get_distance(route[i], route[i + 1], num_points)])
    + get_distance(route[Len(route)], SEP, num_points)

\* delivery_points[p].weight_kg of the instance, as a function of p
InstanceWeightKg == [p \in 0..MaxPoints |-> PointWeightKg(p)]

\* line 159: sum(self.delivery_points[p].weight_kg for p in route)
RouteLoad(route, weight_kg) == SumSeq([i \in 1..Len(route) |-> weight_kg[route[i]]])

RouteWeight(route) == RouteLoad(route, InstanceWeightKg)

RouteVolume(route) == SumSeq([i \in 1..Len(route) |-> PointVolumeM3(route[i])])

Square(x) == x * x

\* lines 155-156
AutonomyPenalty(route, vehicle, num_points) ==
    IF RouteDistance(route, num_points) > VehicleAutonomyKm(vehicle)
    THEN Square(RouteDistance(route, num_points) - VehicleAutonomyKm(vehicle))
    ELSE 0

\* a flat penalty of 1 for any overweight
WeightPenalty_Flat(total_weight, vehicle) ==
    IF total_weight > VehicleCapacityKg(vehicle) THEN 1 ELSE 0

\* lines 165-166
WeightPenalty(total_weight, vehicle) ==
    IF total_weight > VehicleCapacityKg(vehicle)
    THEN Square(total_weight - VehicleCapacityKg(vehicle)) ELSE 0

\* lines 168-169
VolumePenalty(total_volume, vehicle) ==
    IF total_volume > VehicleCapacityVolumeM3(vehicle)
    THEN Square(total_volume - VehicleCapacityVolumeM3(vehicle)) * 10 ELSE 0

\* lines 165-169, for the point weights given
CapacityPenaltyFor(route, vehicle, weight_kg) ==
    WeightPenalty(RouteLoad(route, weight_kg), vehicle)
    + VolumePenalty(RouteVolume(route), vehicle)

CapacityPenalty(route, vehicle) == CapacityPenaltyFor(route, vehicle, InstanceWeightKg)

\* lines 172-182; position is 0-based
PriorityPenalty(route) ==
    LET len == Len(route)
        term(i) ==
            LET position == i - 1
            IN  IF PointPriority(route[i]) = "critico" /\ position > len \div 3
                THEN 100 * position
                ELSE IF PointPriority(route[i]) = "alto" /\ position > (2 * len) \div 3
                     THEN 50 * position
                     ELSE 0
    IN  Rat(SumSeq([i \in 1..len |-> term(i)]), len)

\* lines 185-187: population variance of the route loads
BalancePenalty(route_loads) ==
    LET k == Len(route_loads)
        total == SumSeq(route_loads)
    IN  IF k = 0 THEN RatInt(0)
        ELSE Rat(k * SumSeq([i \in 1..k |-> Square(route_loads[i])]) - Square(total), k * k)

\* calculate_fitness raises IndexError on delivery_points[p] for a point
\* index outside the point list, KeyError on a missing weight
FitnessError(genes, config) ==
    IF \E p \in Range(get_points(genes)) : p >= config.num_points THEN "IndexError"
    ELSE IF ~(FitnessWeightKeys \subseteq DOMAIN config.fitness_weights) THEN "KeyError"
         ELSE ""

\* line 142: the vehicle of the i-th route (1-based) of get_routes()
RouteVehicle(i, config) == (i - 1) % config.num_vehicles

\* lines 203-211: chromosome.fitness_components, for the point weights given
FitnessComponents(genes, config, weight_kg) ==
    LET routes == get_routes(genes)
        k == Len(routes)
    IN  [total_distance |->
            SumSeq([i \in 1..k |-> RouteDistance(routes[i], config.num_points)]),
         capacity_penalty |->
            SumSeq([i \in 1..k |->
                      CapacityPenaltyFor(routes[i], RouteVehicle(i, config), weight_kg)]),
         autonomy_penalty |->
            SumSeq([i \in 1..k |->
                      AutonomyPenalty(routes[i], RouteVehicle(i, config), config.num_points)]),
         priority_penalty |-> RatSum([i \in 1..k |-> PriorityPenalty(routes[i])]),
         balance_penalty |-> BalancePenalty([i \in 1..k |-> RouteLoad(routes[i], weight_kg)]),
         num_vehicles |-> k,
         route_distances |-> [i \in 1..k |-> RouteDistance(routes[i], config.num_points)],
         route_loads |-> [i \in 1..k |-> RouteLoad(routes[i], weight_kg)]]

\* lines 194-201: the weighted sum of the components
WeightedFitness(w, components) ==
    RatAdd(RatInt(w.distance * components.total_distance
                  + w.capacity * components.capacity_penalty
                  + w.autonomy * components.autonomy_penalty
                  + w.num_vehicles * components.num_vehicles),
           RatAdd(RatScale(w.priority, components.priority_penalty),
                  RatScale(w.balance, components.balance_penalty)))

\* calculate_fitness: the scalar stored in chromosome.fitness
calculate_fitness(genes, config) ==
    WeightedFitness(config.fitness_weights,
                    FitnessComponents(genes, config, InstanceWeightKg))

\* the chromosome left as it is, its fitness not computed
Evaluated_Skipped(c, config) == c

\* calculate_fitness(chromosome), line 215: chromosome.fitness = fitness
Evaluated(c, config) == [c EXCEPT !.fitness = calculate_fitness(c.genes, config)]

----------------------------------------------------------------------------
(* operators.py: mutation and selection.  A mutation yields a set of       *)
(* outcomes [status, chrom]; status names the exception raised, "ok" if    *)
(* none.  The mutation tag keeps the kind of the mutation only.            *)

Ok(c) == [status |-> "ok", chrom |-> c]

Raised(exception) == [status |-> exception, chrom |-> NoChromosome]

\* [i for i, g in enumerate(genes) if g != -1], 1-based
PointIndices(genes) ==
    SelectSeq([i \in 1..Len(genes) |-> i], LAMBDA i : genes[i] # SEP)

swap_mutation(chromosome) ==
    LET mutant == copy(chromosome)
        points == get_points(mutant.genes)
        point_indices == PointIndices(mutant.genes)
    IN  IF Len(points) < 2 THEN {Ok(mutant)}
        ELSE {Ok([mutant EXCEPT
                    !.genes = [mutant.genes EXCEPT
                                  ![point_indices[idx[1]]] = mutant.genes[point_indices[idx[2]]],
                                  ![point_indices[idx[2]]] = mutant.genes[point_indices[idx[1]]]],
                    !.mutation_applied = "SWAP"]) :
                idx \in {x \in (1..Len(points)) \X (1..Len(points)) : x[1] # x[2]}}

\* lines 271-277: separators_pos, the number of points seen before each
\* separator of the window
SeparatorsPos(window) ==
    LET sep_indices == SelectSeq([i \in 1..Len(window) |-> i], LAMBDA i : window[i] = SEP)
    IN  [k \in 1..Len(sep_indices) |->
            Cardinality({j \in 1..(sep_indices[k] - 1) : window[j] # SEP})]

Reverse(s) == [i \in 1..Len(s) |-> s[Len(s) + 1 - i]]

\* lines 283-290: pos runs over 0..total-1; a separator where pos is in
\* separators_pos, else the next point of the reversed segment
RECURSIVE RebuildSegment(_, _, _, _, _)
RebuildSegment(pos, total, segment, seg_idx, separators_pos) ==
    IF pos >= total THEN <<>>
    ELSE IF pos \in Range(separators_pos)
         THEN <<SEP>> \o RebuildSegment(pos + 1, total, segment, seg_idx, separators_pos)
         ELSE <<segment[seg_idx]>>
                \o RebuildSegment(pos + 1, total, segment, seg_idx + 1, separators_pos)

\* segment[seg_idx] is read past the end when fewer separators are placed
\* than were recorded
RebuildRaises(window) ==
    LET separators_pos == SeparatorsPos(window)
        total == Len(window)
        placed == Cardinality({pos \in 0..(total - 1) : pos \in Range(separators_pos)})
    IN  total - placed > Len(get_points(window))

InvertWindow(window) ==
    RebuildSegment(0, Len(window), Reverse(get_points(window)), 1, SeparatorsPos(window))

\* lines 261-262: idx1 = randint(0, len - 2), idx2 = randint(idx1 + 1, len)
InversionWindows(points) ==
    {x \in (0..(Len(points) - 2)) \X (1..Len(points)) : x[2] > x[1]}

\* lines 264-294 for the window [idx1, idx2) of the points of mutant
InversionOutcome(mutant, idx1, idx2) ==
    LET point_indices == PointIndices(mutant.genes)
        gene_idx1 == point_indices[idx1 + 1]
        gene_idx2 == point_indices[idx2]
        window == SubSeq(mutant.genes, gene_idx1, gene_idx2)
    IN  IF RebuildRaises(window) THEN Raised("IndexError")
        ELSE Ok([mutant EXCEPT
                    !.genes = SubSeq(mutant.genes, 1, gene_idx1 - 1)
                                \o InvertWindow(window)
                                \o SubSeq(mutant.genes, gene_idx2 + 1, Len(mutant.genes)),
                    !.mutation_applied = "INVERSION"])

inversion_mutation(chromosome) ==
    LET mutant == copy(chromosome)
        points == get_points(mutant.genes)
    IN  IF Len(points) < 2 THEN {Ok(mutant)}
        ELSE {InversionOutcome(mutant, idx[1], idx[2]) : idx \in InversionWindows(points)}

RemoveAt(s, i) == SubSeq(s, 1, i - 1) \o SubSeq(s, i + 1, Len(s))

InsertAt(s, i, x) == SubSeq(s, 1, i - 1) \o <<x>> \o SubSeq(s, i, Len(s))

\* lines 338-342: a separator after every non-empty route but the last
RECURSIVE RebuildFromRoutes(_)
RebuildFromRoutes(routes) ==
    IF routes = <<>> THEN <<>>
    ELSE Head(routes)
            \o (IF Len(routes) > 1 /\ Head(routes) # <<>> THEN <<SEP>> ELSE <<>>)
            \o RebuildFromRoutes(Tail(routes))

\* lines 316-334: source route, destination route, index of the point in
\* the source route and insert position in the destination route (1-based)
MoveChoices(routes) ==
    {x \in (1..Len(routes)) \X (1..Len(routes))
            \X (1..Len(Flatten(routes))) \X (1..(Len(Flatten(routes)) + 1)) :
        /\ x[1] # x[2]
        /\ x[3] <= Len(routes[x[1]])
        /\ x[4] <= Len(routes[x[2]]) + 1}

\* the routes rebuilt with no point moved
MovedGenes_Nothing(routes, src, dst, point_idx, insert_pos) == RebuildFromRoutes(routes)

\* lines 326-342: the point taken out, put in, and the genes rebuilt
MovedGenes(routes, src, dst, point_idx, insert_pos) ==
    LET point == routes[src][point_idx]
        shrunk == [routes EXCEPT ![src] = RemoveAt(@, point_idx)]
    IN  RebuildFromRoutes([shrunk EXCEPT ![dst] = InsertAt(@, insert_pos, point)])

\* lines 344-346 for one choice: tag and repair
MoveOutcomes(mutant, num_points, m) ==
    {Ok([mutant EXCEPT !.genes = g, !.mutation_applied = "MOVE"]) :
        g \in repair(MovedGenes(get_routes(mutant.genes), m[1], m[2], m[3], m[4]),
                     num_points)}

move_mutation(chromosome, num_points) ==
    LET mutant == copy(chromosome)
        routes == get_routes(mutant.genes)
    IN  IF Len(routes) < 2 THEN swap_mutation(mutant)
        ELSE UNION {MoveOutcomes(mutant, num_points, m) : m \in MoveChoices(routes)}

\* line 362: random.sample(population, min(tournament_size, len(population))),
\* the samples as sets of indices
TournamentSamples(pop, tournament_size) ==
    {S \in SUBSET (1..Len(pop)) : Cardinality(S) = Min2(tournament_size, Len(pop))}

\* any member of the sample, whatever its fitness
TournamentWinners_Any(pop, sample) == sample

\* line 363: min(tournament, key=fitness); the sample comes in random order,
\* so any of its members of minimal fitness can be the one returned
TournamentWinners(pop, sample) ==
    {i \in sample : \A j \in sample : ~RatLess(pop[j].fitness, pop[i].fitness)}

\* the indices that can win a tournament
tournament_selection(pop, tournament_size) ==
    UNION {TournamentWinners(pop, sample) : sample \in TournamentSamples(pop, tournament_size)}

\* every member has adjusted fitness max - f + 1 >= 1, so the uniform pick
\* (or random.choice when all are equal) can land on any of them
roulette_selection(pop) == 1..Len(pop)

----------------------------------------------------------------------------
(* logger.py *)

NoLogger ==
    [chromosome_counter |-> 0, total_crossovers |-> 0, total_mutations |-> 0,
     genealogy |-> <<>>, generation_history |-> <<>>, significant_events |-> <<>>]

\* improvement_threshold = 0.05, as the fraction 1 / ImprovementInverse
ImprovementInverse == 20

\* (before - after) / before >= improvement_threshold, for before > 0
SignificantImprovement(before, after) ==
    LET gain == RatAdd(before, RatScale(-1, after))
    IN  ~RatLess(RatScale(ImprovementInverse, gain), before)

\* an assign_id that hands out the current counter without advancing it
assign_id_Stuck(lg) == lg

\* assign_id: the counter after the call is the id handed out
assign_id(lg) == [lg EXCEPT !.chromosome_counter = @ + 1]

log_significant_event(lg, generation, event_type, chromosome) ==
    [lg EXCEPT !.significant_events =
        Append(@, [generation |-> generation, event_type |-> event_type,
                   chromosome_id |-> chromosome.id, fitness |-> chromosome.fitness])]

\* log_crossover: [logger, child1, child2] after the call
log_crossover(lg, generation, parent1, parent2, child1, child2) ==
    LET lg1 == IF child1.id = 0 THEN assign_id(lg) ELSE lg
        c1 == [child1 EXCEPT !.id = IF child1.id = 0 THEN lg1.chromosome_counter ELSE @,
                             !.generation = generation]
        lg2 == IF child2.id = 0 THEN assign_id(lg1) ELSE lg1
        c2 == [child2 EXCEPT !.id = IF child2.id = 0 THEN lg2.chromosome_counter ELSE @,
                             !.generation = generation]
        entry(c) == [id |-> c.id, generation |-> generation, type |-> "crossover",
                     parent1_id |-> parent1.id, parent2_id |-> parent2.id,
                     fitness |-> c.fitness]
        genealogy == (c2.id :> entry(c2)) @@ (c1.id :> entry(c1)) @@ lg.genealogy
    IN  [logger |-> [lg2 EXCEPT !.total_crossovers = @ + 1, !.genealogy = genealogy],
         child1 |-> c1, child2 |-> c2]

\* mutated.mutation_applied or 'UNKNOWN'
MutationTag(c) == IF c.mutation_applied = "none" THEN "UNKNOWN" ELSE c.mutation_applied

\* log_mutation: [logger, mutated] after the call
log_mutation(lg, generation, original, mutated) ==
    LET lg1 == IF mutated.id = 0 THEN assign_id(lg) ELSE lg
        m == [mutated EXCEPT !.id = IF mutated.id = 0 THEN lg1.chromosome_counter ELSE @,
                             !.generation = generation]
        entry == [id |-> m.id, generation |-> generation, type |-> "mutation",
                  parent_id |-> original.id, mutation_type |-> MutationTag(m),
                  fitness_before |-> original.fitness, fitness_after |-> m.fitness,
                  fitness_change |-> RatAdd(m.fitness, RatScale(-1, original.fitness))]
        lg2 == [lg1 EXCEPT !.total_mutations = @ + 1,
                           !.genealogy = (m.id :> entry) @@ @]
        lg3 == IF RatLess(RatInt(0), original.fitness)
                    /\ SignificantImprovement(original.fitness, m.fitness)
               THEN log_significant_event(lg2, generation, "BENEFICIAL_MUTATION", m)
               ELSE lg2
    IN  [logger |-> lg3, mutated |-> m]

log_generation(lg, generation, pop, best) ==
    LET gen_info == [generation |-> generation, best_fitness |-> best.fitness,
                     best_chromosome_id |-> best.id]
        history == Append(lg.generation_history, gen_info)
        lg1 == [lg EXCEPT !.generation_history = history]
    IN  IF Len(history) > 1
            /\ SignificantImprovement(history[Len(history) - 1].best_fitness, best.fitness)
        THEN log_significant_event(lg1, generation, "SIGNIFICANT_IMPROVEMENT", best)
        ELSE lg1

\* get_chromosome_lineage, lines 361-376: [status, lineage, stopped_at]; the
\* lineage is built by insert(0, info), stopped_at is current_id when the
\* loop ends; a walk that comes back to an id it has seen never ends
RECURSIVE LineageWalk(_, _, _, _)
LineageWalk(genealogy, current_id, lineage, seen) ==
    IF current_id \notin DOMAIN genealogy
    THEN [status |-> "ok", lineage |-> lineage, stopped_at |-> current_id]
    ELSE IF current_id \in seen
         THEN [status |-> "hang", lineage |-> lineage, stopped_at |-> current_id]
         ELSE LET info == genealogy[current_id]
                  found == <<info>> \o lineage
              IN  IF "parent1_id" \in DOMAIN info
                  THEN LineageWalk(genealogy, info.parent1_id, found, seen \cup {current_id})
                  ELSE IF "parent_id" \in DOMAIN info
                       THEN LineageWalk(genealogy, info.parent_id, found,
                                        seen \cup {current_id})
                       ELSE [status |-> "ok", lineage |-> found, stopped_at |-> current_id]

get_chromosome_lineage(lg, chromosome_id) ==
    LineageWalk(lg.genealogy, chromosome_id, <<>>, {})

\* lines 397-402: the positions at which two point lists differ; zip stops
\* at the end of the shorter list
HammingDistance(points_i, points_j) ==
    Cardinality({k \in 1..Min2(Len(points_i), Len(points_j)) : points_i[k] # points_j[k]})

\* lines 393-404: the sum of the distances over all pairs i < j
SumOfDistances(pop) ==
    SumSeq([i \in 1..Len(pop) |->
              SumSeq([j \in 1..Len(pop) |->
                        IF j > i THEN HammingDistance(get_points(pop[i].genes),
                                                      get_points(pop[j].genes))
                        ELSE 0])])

\* lines 410-412: the average distance over the point count of the first
\* chromosome, 0 when it has no point
DiversityRatio(pop) ==
    LET max_possible == Len(get_points(pop[1].genes))
        num_distances == (Len(pop) * (Len(pop) - 1)) \div 2
    IN  IF max_possible > 0 THEN Rat(SumOfDistances(pop), num_distances * max_possible)
        ELSE RatInt(0)

\* the ratio returned as it is
Clamp_None(diversity) == diversity

\* line 414: min(diversity, 1.0)
Clamp(diversity) == IF RatLess(RatInt(1), diversity) THEN RatInt(1) ELSE diversity

\* calculate_diversity
calculate_diversity(pop) ==
    IF Len(pop) < 2 THEN RatInt(0) ELSE Clamp(DiversityRatio(pop))

----------------------------------------------------------------------------
(* chromosome.py: create_random *)

\* the split with the extra points handed to the last vehicles
RECURSIVE SplitBlocks_ExtraLast(_, _, _, _, _)
SplitBlocks_ExtraLast(points, v, num_vehicles, points_per_vehicle, remainder) ==
    IF v >= num_vehicles THEN <<>>
    ELSE LET size == points_per_vehicle
                        + (IF v >= num_vehicles - remainder THEN 1 ELSE 0)
         IN  Slice(points, 0, size)
                \o (IF v < num_vehicles - 1 THEN <<SEP>> ELSE <<>>)
                \o SplitBlocks_ExtraLast(Slice(points, size, Len(points)), v + 1,
                                         num_vehicles, points_per_vehicle, remainder)

\* lines 222-240: contiguous blocks of the shuffled points, one per vehicle
RECURSIVE SplitBlocks(_, _, _, _, _)
SplitBlocks(points, v, num_vehicles, points_per_vehicle, remainder) ==
    IF v >= num_vehicles THEN <<>>
    ELSE LET size == points_per_vehicle + (IF v < remainder THEN 1 ELSE 0)
         IN  Slice(points, 0, size)
                \o (IF v < num_vehicles - 1 THEN <<SEP>> ELSE <<>>)
                \o SplitBlocks(Slice(points, size, Len(points)), v + 1, num_vehicles,
                               points_per_vehicle, remainder)

\* lines 248-251: a separator inserted before each chosen 0-based position
InsertSeparators(points, positions) ==
    Flatten([i \in 1..Len(points) |->
                IF (i - 1) \in positions THEN <<SEP, points[i]>> ELSE <<points[i]>>])

\* the gene lists create_random can build before its final repair; the
\* division by num_vehicles = 0 is handled by the caller
RandomGenes(num_points, num_vehicles) ==
    IF num_points >= num_vehicles
    THEN {SplitBlocks(points, 0, num_vehicles, num_points \div num_vehicles,
                      num_points % num_vehicles) :
            points \in Orderings(0..(num_points - 1))}
    ELSE LET num_separators == Min2(num_vehicles - 1, num_points - 1)
         IN  {InsertSeparators(points, positions) :
                points \in Orderings(0..(num_points - 1)),
                positions \in {S \in SUBSET (1..(num_points - 1)) :
                                  Cardinality(S) = Max2(num_separators, 0)}}

create_random(num_points, num_vehicles) ==
    UNION {repair(genes, num_points) : genes \in RandomGenes(num_points, num_vehicles)}

----------------------------------------------------------------------------
(* ga_engine.py *)

NumGenerations == 2

PopulationSize == 2

MaxSelectAttempts == 10

\* default_config, with the population, the number of generations, the
\* tournament and the elite share scaled to the bounds of the model; the
\* mutation weights 0.4, 0.3, 0.3 are kept as the ratio 4 : 3 : 3
DefaultConfig ==
    [num_points |-> MaxPoints, num_vehicles |-> MaxVehicles,
     population_size |-> PopulationSize, num_generations |-> NumGenerations,
     elitism_rate |-> [num |-> 1, den |-> 2], tournament_size |-> 2,
     fitness_weights |-> DefaultFitnessWeights,
     mutation_types |-> <<"swap", "inversion", "move">>,
     mutation_weights |-> <<4, 3, 3>>,
     crossover_type |-> "order", selection_type |-> "tournament",
     enable_logging |-> TRUE]

\* config = {'enable_logging': False}
QuietConfig == [DefaultConfig EXCEPT !.enable_logging = FALSE]

NoConfig == [DefaultConfig EXCEPT !.num_points = 0, !.num_vehicles = 0,
                                  !.population_size = 0, !.num_generations = 0]

\* a configuration the documentation of the engine calls usable
ValidConfig(c) ==
    /\ c.num_points >= 1
    /\ c.num_vehicles >= 1
    /\ c.population_size >= 1
    /\ FitnessWeightKeys \subseteq DOMAIN c.fitness_weights
    /\ Len(c.mutation_types) = Len(c.mutation_weights)

\* The configurations explored.  Without a logger every id stays None, so
\* the largest instances are run there; the PMX and the logged runs, whose
\* chromosomes and genealogy grow with every step, use the smaller ones.
OrderConfigs ==
    {[QuietConfig EXCEPT !.num_points = n, !.num_vehicles = v] :
        n \in 1..MaxPoints, v \in 1..MaxVehicles}

PMXConfigs ==
    {[QuietConfig EXCEPT !.num_points = n, !.num_vehicles = v,
                           !.crossover_type = "pmx", !.selection_type = "roulette",
                           !.num_generations = NumGenerations - 1] :
        n \in 1..MaxPoints, v \in 1..(MaxVehicles - 1)}

LoggedConfigs ==
    {[DefaultConfig EXCEPT !.num_points = n, !.num_vehicles = v,
                           !.crossover_type = x, !.selection_type = sel,
                           !.elitism_rate = [num |-> e, den |-> 2],
                           !.num_generations = NumGenerations - 1] :
        n \in 1..(MaxPoints - 1), v \in 1..(MaxVehicles - 1), x \in {"order", "pmx"},
        sel \in {"tournament", "roulette"}, e \in 0..2}

ValidConfigs == OrderConfigs \cup PMXConfigs \cup LoggedConfigs

InvalidConfigs ==
    {[QuietConfig EXCEPT !.population_size = 0],
     [QuietConfig EXCEPT !.num_vehicles = 0],
     [QuietConfig EXCEPT !.fitness_weights = [distance |-> 1, capacity |-> 10]],
     [QuietConfig EXCEPT !.mutation_weights = <<4, 3>>]}

Configs == ValidConfigs \cup InvalidConfigs

\* list.sort() with Chromosome.__lt__: stable insertion by fitness
RECURSIVE InsertSorted(_, _)
InsertSorted(c, sorted) ==
    IF sorted = <<>> THEN <<c>>
    ELSE IF RatLess(c.fitness, Head(sorted).fitness) THEN <<c>> \o sorted
         ELSE <<Head(sorted)>> \o InsertSorted(c, Tail(sorted))

\* the sort left out: the population stays in insertion order
SortPopulation_Unsorted(pop) == pop

RECURSIVE SortPopulation(_)
SortPopulation(pop) ==
    IF pop = <<>> THEN <<>>
    ELSE InsertSorted(pop[Len(pop)], SortPopulation(SubSeq(pop, 1, Len(pop) - 1)))

IsSorted(pop) ==
    \A i \in 1..Len(pop) : \A j \in (i + 1)..Len(pop) :
        ~RatLess(pop[j].fitness, pop[i].fitness)

\* int(population_size * elitism_rate)
EliteSize(config) ==
    (config.population_size * config.elitism_rate.num) \div config.elitism_rate.den

\* the loop of run() with the stagnation stop switched on
LoopFinished_EarlyStop ==
    \/ current_generation >= cfg.num_generations
    \/ generations_without_improvement >= 1

\* the for loop of run() has no early exit: it ends after num_generations
LoopFinished == current_generation >= cfg.num_generations

Fail(exception) ==
    /\ pc' = "failed"
    /\ error' = exception
    /\ UNCHANGED <<cfg, population, new_population, children, best_chromosome,
                   current_generation, generations_without_improvement, logger,
                   callbacks, last_elite>>

\* what generation_callback is handed, and what it can see of the engine
CallbackRecord(generation, pop, best) ==
    [generation |-> generation, best |-> best, sorted |-> IsSorted(pop),
     population_best |-> pop[1].fitness]

\* __init__: stores the configuration as given
Construct ==
    /\ pc = "new"
    /\ \E c \in Configs :
          /\ cfg' = c
          /\ logger' = NoLogger
    /\ pc' = "constructed"
    /\ UNCHANGED <<population, new_population, children, best_chromosome,
                   current_generation, generations_without_improvement,
                   callbacks, last_elite, error>>

\* initialize_population, lines 98-110: the seed chromosomes in creation
\* order, evaluated and (with a logger) numbered
SeedPopulation(genes_list) ==
    [i \in 1..Len(genes_list) |->
        [Evaluated(Chromosome(genes_list[i], cfg.num_vehicles), cfg)
            EXCEPT !.id = IF cfg.enable_logging THEN i ELSE 0]]

\* run() up to the main loop: initialize_population, generation-0 log,
\* first callback
RunStart ==
    /\ pc = "constructed"
    /\ IF cfg.population_size >= 1 /\ cfg.num_vehicles = 0 THEN Fail("ZeroDivisionError")
       ELSE IF cfg.population_size >= 1 /\ FitnessError(<<>>, cfg) # ""
            THEN Fail(FitnessError(<<>>, cfg))
       ELSE IF cfg.population_size < 1 THEN Fail("IndexError")
       ELSE \E genes_list \in [1..cfg.population_size ->
                                create_random(cfg.num_points, cfg.num_vehicles)] :
              LET pop == SortPopulation(SeedPopulation(genes_list))
                  best == copy(pop[1])
              IN  /\ population' = pop
                  /\ best_chromosome' = best
                  /\ logger' = IF cfg.enable_logging
                               THEN log_generation(
                                      [logger EXCEPT !.chromosome_counter = cfg.population_size],
                                      0, pop, best)
                               ELSE logger
                  /\ callbacks' = Append(callbacks, CallbackRecord(0, pop, best))
                  /\ pc' = "loop"
                  /\ UNCHANGED <<cfg, new_population, children, current_generation,
                                 generations_without_improvement, last_elite, error>>

\* evolve_generation, lines 212-217: the elite copies open the new population
BeginGeneration ==
    /\ pc = "loop"
    /\ ~LoopFinished
    /\ current_generation' = current_generation + 1
    /\ last_elite' = Slice(population, 0, EliteSize(cfg))
    /\ new_population' = [i \in 1..Len(last_elite') |-> copy(last_elite'[i])]
    /\ pc' = "select"
    /\ UNCHANGED <<cfg, population, children, best_chromosome,
                   generations_without_improvement, logger, callbacks, error>>

\* select_parents: [parent1, parent2, attempts], the parents as indices into
\* the population
select_parents(pop, config) ==
    LET tournament == tournament_selection(pop, config.tournament_size)
        first == IF config.selection_type = "tournament" THEN tournament
                 ELSE roulette_selection(pop)
        same(i, draw) == {k \in draw : pop[k].id = pop[i].id}
        other(i, draw) == {k \in draw : pop[k].id # pop[i].id}
        \* parent2 differs at once: the while loop is skipped
        direct(i) == {[parent1 |-> i, parent2 |-> j, attempts |-> 0] : j \in other(i, first)}
        \* a re-draw differs: the loop ends after 1..10 draws (after the first
        \* one when no tournament can return parent1's id)
        redrawn(i) ==
            {[parent1 |-> i, parent2 |-> j, attempts |-> a] :
                j \in other(i, tournament),
                a \in IF same(i, tournament) # {} THEN 1..MaxSelectAttempts ELSE {1}}
        \* all ten re-draws share parent1's id: the last one is kept
        exhausted(i) ==
            {[parent1 |-> i, parent2 |-> j, attempts |-> MaxSelectAttempts] :
                j \in same(i, tournament)}
    IN  UNION {direct(i) \cup (IF same(i, first) # {} THEN redrawn(i) \cup exhausted(i) ELSE {}) :
               i \in first}

\* crossover(): the operator picked by crossover_type, fitness of both
\* children, log_crossover.  Outcomes [status, child1, child2, logger].
CrossoverRaised(exception) ==
    [status |-> exception, child1 |-> NoChromosome, child2 |-> NoChromosome,
     logger |-> NoLogger]

CrossoverDone(ch, parent1, parent2) ==
    IF FitnessError(ch[1].genes, cfg) # "" THEN CrossoverRaised(FitnessError(ch[1].genes, cfg))
    ELSE IF FitnessError(ch[2].genes, cfg) # ""
         THEN CrossoverRaised(FitnessError(ch[2].genes, cfg))
         ELSE LET c1 == Evaluated(ch[1], cfg)
                  c2 == Evaluated(ch[2], cfg)
                  logged == log_crossover(logger, current_generation, parent1, parent2, c1, c2)
              IN  IF cfg.enable_logging
                  THEN [status |-> "ok", child1 |-> logged.child1, child2 |-> logged.child2,
                        logger |-> logged.logger]
                  ELSE [status |-> "ok", child1 |-> c1, child2 |-> c2, logger |-> logger]

crossover(parent1, parent2) ==
    LET size == Len(get_points(parent1.genes))
    IN  IF cfg.crossover_type = "pmx"
        THEN IF PMXCutPoints(size) = {} THEN {CrossoverRaised("ValueError")}
             ELSE UNION {
                    IF PMXOutcome(parent1, parent2, cx[1], cx[2]) # "ok"
                    THEN {CrossoverRaised(PMXOutcome(parent1, parent2, cx[1], cx[2]))}
                    ELSE {CrossoverDone(ch, parent1, parent2) :
                            ch \in partially_mapped_crossover_vrp(parent1, parent2, cx[1], cx[2])} :
                    cx \in PMXCutPoints(size)}
        ELSE IF OXCutPoints(size) = {} THEN {CrossoverRaised("ValueError")}
             ELSE UNION {{CrossoverDone(ch, parent1, parent2) :
                            ch \in order_crossover_vrp(parent1, parent2, cx[1], cx[2])} :
                         cx \in OXCutPoints(size)}

\* evolve_generation, lines 221-230: two parents, then crossover or clones
SelectAndCross ==
    /\ pc = "select"
    /\ Len(new_population) < cfg.population_size
    /\ \E sel \in {<<s.parent1, s.parent2>> : s \in select_parents(population, cfg)} :
          LET parent1 == population[sel[1]]
              parent2 == population[sel[2]]
          IN  \/ \E out \in crossover(parent1, parent2) :
                    IF out.status # "ok" THEN Fail(out.status)
                    ELSE /\ children' = <<out.child1, out.child2>>
                         /\ logger' = out.logger
                         /\ pc' = "mutate1"
                         /\ UNCHANGED <<cfg, population, new_population, best_chromosome,
                                        current_generation, generations_without_improvement,
                                        callbacks, last_elite, error>>
              \/ /\ children' = <<Evaluated(copy(parent1), cfg), Evaluated(copy(parent2), cfg)>>
                 /\ pc' = "mutate1"
                 /\ UNCHANGED <<cfg, population, new_population, best_chromosome,
                                current_generation, generations_without_improvement,
                                logger, callbacks, last_elite, error>>

\* random.choices(mutation_types, weights=mutation_weights): ValueError when
\* the lengths differ, else any type of positive weight
MutationChoices(config) ==
    IF Len(config.mutation_types) # Len(config.mutation_weights) THEN {}
    ELSE {config.mutation_types[i] :
            i \in {k \in 1..Len(config.mutation_types) : config.mutation_weights[k] > 0}}

\* mutate(): outcomes [status, chrom, logger]
mutate(chromosome) ==
    IF MutationChoices(cfg) = {} THEN {[status |-> "ValueError", chrom |-> NoChromosome,
                                        logger |-> NoLogger]}
    ELSE LET original == copy(chromosome)
             applied(mutation_type) ==
                IF mutation_type = "swap" THEN swap_mutation(chromosome)
                ELSE IF mutation_type = "inversion" THEN inversion_mutation(chromosome)
                     ELSE move_mutation(chromosome, cfg.num_points)
             finish(out) ==
                IF out.status # "ok"
                THEN [status |-> out.status, chrom |-> NoChromosome, logger |-> NoLogger]
                ELSE IF FitnessError(out.chrom.genes, cfg) # ""
                     THEN [status |-> FitnessError(out.chrom.genes, cfg),
                           chrom |-> NoChromosome, logger |-> NoLogger]
                     ELSE LET mutated == Evaluated(out.chrom, cfg)
                              logged == log_mutation(logger, current_generation,
                                                     original, mutated)
                          IN  IF cfg.enable_logging
                              THEN [status |-> "ok", chrom |-> logged.mutated,
                                    logger |-> logged.logger]
                              ELSE [status |-> "ok", chrom |-> mutated, logger |-> logger]
         IN  UNION {{finish(out) : out \in applied(t)} : t \in MutationChoices(cfg)}

\* evolve_generation, lines 233-234: child1 is mutated or kept
MutateFirst ==
    /\ pc = "mutate1"
    /\ \/ /\ pc' = "mutate2"
          /\ UNCHANGED <<cfg, population, new_population, children, best_chromosome,
                         current_generation, generations_without_improvement, logger,
                         callbacks, last_elite, error>>
       \/ \E out \in mutate(children[1]) :
             IF out.status # "ok" THEN Fail(out.status)
             ELSE /\ children' = <<out.chrom, children[2]>>
                  /\ logger' = out.logger
                  /\ pc' = "mutate2"
                  /\ UNCHANGED <<cfg, population, new_population, best_chromosome,
                                 current_generation, generations_without_improvement,
                                 callbacks, last_elite, error>>

\* both children appended whatever room is left
Appended_Both(pop, child1, child2) == pop \o <<child1, child2>>

\* lines 239-241: child1 is appended, child2 only while there is room
Appended(pop, child1, child2) ==
    IF Len(pop) + 1 < cfg.population_size THEN pop \o <<child1, child2>>
    ELSE Append(pop, child1)

\* evolve_generation, lines 236-241: child2 is mutated or kept, then both
\* children join the new population
MutateSecondAndAppend ==
    /\ pc = "mutate2"
    /\ \/ /\ new_population' = Appended(new_population, children[1], children[2])
          /\ children' = <<>>
          /\ pc' = "select"
          /\ UNCHANGED <<cfg, population, best_chromosome, current_generation,
                         generations_without_improvement, logger, callbacks,
                         last_elite, error>>
       \/ \E out \in mutate(children[2]) :
             IF out.status # "ok" THEN Fail(out.status)
             ELSE /\ new_population' = Appended(new_population, children[1], out.chrom)
                  /\ children' = <<>>
                  /\ logger' = out.logger
                  /\ pc' = "select"
                  /\ UNCHANGED <<cfg, population, best_chromosome, current_generation,
                                 generations_without_improvement, callbacks,
                                 last_elite, error>>

\* current_best.fitness <= self.best_chromosome.fitness
Improved_OrEqual(pop, best) == ~RatLess(best.fitness, pop[1].fitness)

\* line 249: current_best.fitness < self.best_chromosome.fitness
Improved(pop, best) == RatLess(pop[1].fitness, best.fitness)

\* evolve_generation, lines 243-258, and the rest of the loop body of run():
\* replace and sort the population, update the all-time best, log, call back
EndGeneration ==
    /\ pc = "select"
    /\ Len(new_population) >= cfg.population_size
    /\ LET pop == SortPopulation(Slice(new_population, 0, cfg.population_size))
           improved == Improved(pop, best_chromosome)
           best == IF improved THEN copy(pop[1]) ELSE best_chromosome
       IN  /\ population' = pop
           /\ best_chromosome' = best
           /\ generations_without_improvement' =
                IF improved THEN 0 ELSE generations_without_improvement + 1
           /\ logger' = IF cfg.enable_logging
                        THEN log_generation(logger, current_generation, pop, best)
                        ELSE logger
           /\ callbacks' = Append(callbacks, CallbackRecord(current_generation, pop, best))
    /\ new_population' = <<>>
    /\ pc' = "loop"
    /\ UNCHANGED <<cfg, children, current_generation, last_elite, error>>

\* run() leaves the loop and returns self.best_chromosome
RunReturn ==
    /\ pc = "loop"
    /\ LoopFinished
    /\ pc' = "done"
    /\ UNCHANGED <<cfg, population, new_population, children, best_chromosome,
                   current_generation, generations_without_improvement, logger,
                   callbacks, last_elite, error>>

\* get_chromosome_lineage called on the logger once run() has returned
GetLineage ==
    /\ pc = "done"
    /\ fn = "none"
    /\ \E chromosome_id \in DOMAIN logger.genealogy :
          /\ fin' = chromosome_id
          /\ fout' = get_chromosome_lineage(logger, chromosome_id)
    /\ fn' = "lineage"
    /\ UNCHANGED engineVars

Init ==
    /\ fn = "none"
    /\ fin = <<>>
    /\ fout = <<>>
    /\ pc = "new"
    /\ cfg = NoConfig
    /\ population = <<>>
    /\ new_population = <<>>
    /\ children = <<>>
    /\ best_chromosome = NoChromosome
    /\ current_generation = 0
    /\ generations_without_improvement = 0
    /\ logger = NoLogger
    /\ callbacks = <<>>
    /\ last_elite = <<>>
    /\ error = ""

Next ==
    \/ (Construct /\ UNCHANGED harnessVars)
    \/ (RunStart /\ UNCHANGED harnessVars)
    \/ (BeginGeneration /\ UNCHANGED harnessVars)
    \/ (SelectAndCross /\ UNCHANGED harnessVars)
    \/ (MutateFirst /\ UNCHANGED harnessVars)
    \/ (MutateSecondAndAppend /\ UNCHANGED harnessVars)
    \/ (EndGeneration /\ UNCHANGED harnessVars)
    \/ (RunReturn /\ UNCHANGED harnessVars)
    \/ GetLineage

Spec == Init /\ [][Next]_vars

----------------------------------------------------------------------------
(* Engine state while a harness specification runs *)

EngineIdle ==
    /\ pc = "idle"
    /\ cfg = NoConfig
    /\ population = <<>>
    /\ new_population = <<>>
    /\ children = <<>>
    /\ best_chromosome = NoChromosome
    /\ current_generation = 0
    /\ generations_without_improvement = 0
    /\ logger = NoLogger
    /\ callbacks = <<>>
    /\ last_elite = <<>>
    /\ error = ""

----------------------------------------------------------------------------
(* SpecRepair: Chromosome.repair on arbitrary gene sequences *)

RepairInputs ==
    {[chroms |-> <<Chromosome(g, MaxVehicles)>>, num_points |-> n] :
        n \in 1..MaxPoints, g \in SeqsUpTo(-1..(MaxPoints - 1), MaxGenes)}

InitRepair ==
    /\ fn = "none"
    /\ fin \in {i \in RepairInputs :
                  Range(i.chroms[1].genes) \subseteq -1..(i.num_points - 1)}
    /\ fout = <<>>
    /\ EngineIdle

RepairStep ==
    /\ fn = "none"
    /\ \E g \in repair(fin.chroms[1].genes, fin.num_points) :
          fout' = <<[fin.chroms[1] EXCEPT !.genes = g]>>
    /\ fn' = "repair"
    /\ UNCHANGED <<fin, engineVars>>

\* repair called once more on the repaired chromosome
RepairAgain ==
    /\ fn = "repair"
    /\ \E g \in repair(fout[1].genes, fin.num_points) :
          fout' = Append(fout, [fout[1] EXCEPT !.genes = g])
    /\ fn' = "repair2"
    /\ UNCHANGED <<fin, engineVars>>

NextRepair == RepairStep \/ RepairAgain

SpecRepair == InitRepair /\ [][NextRepair]_vars

\* C1: after repair(N) on any sequence over 0..N-1 and the sentinel, the
\* chromosome passes is_valid() and holds every point 0..N-1 exactly once.
C1_RepairYieldsValidPermutation ==
    fn = "repair" =>
        /\ is_valid(fout[1].genes)
        /\ ExactlyOnce(fout[1].genes, fin.num_points)

\* C18: on genes that hold every point 0..N-1 exactly once, repair(N) keeps
\* the order of the points and the non-empty routes and only removes
\* leading, trailing and doubled sentinels; it changes nothing on a
\* chromosome that has none of these, and a second repair(N) changes nothing.
C18_RepairKeepsCompleteGenes ==
    (fn \in {"repair", "repair2"} /\ ExactlyOnce(fin.chroms[1].genes, fin.num_points)) =>
        LET before == fin.chroms[1].genes
            after == fout[1].genes
        IN  /\ get_points(after) = get_points(before)
            /\ get_routes(after) = get_routes(before)
            /\ NoStraySeparators(after)
            /\ NoStraySeparators(before) => after = before
            /\ fn = "repair2" => fout[2].genes = after

\* a doubled sentinel between two routes was removed, then repair ran again
C18_Witness ==
    /\ fn = "repair2"
    /\ ExactlyOnce(fin.chroms[1].genes, fin.num_points)
    /\ \E i \in 1..(Len(fin.chroms[1].genes) - 1) :
          fin.chroms[1].genes[i] = SEP /\ fin.chroms[1].genes[i + 1] = SEP
    /\ Len(get_routes(fout[1].genes)) = 2
    /\ fout[2].genes = fout[1].genes

----------------------------------------------------------------------------
(* SpecCross: the crossover operators on two valid parents over the same N *)

ValidGenes(n) ==
    {g \in SeqsUpTo(-1..(n - 1), n + MaxVehicles - 1) :
        is_valid(g) /\ ExactlyOnce(g, n)}

InitCross ==
    /\ fn = "none"
    /\ \E n \in 1..MaxPoints : \E g1 \in ValidGenes(n) : \E g2 \in ValidGenes(n) :
          fin = [chroms |-> <<[Chromosome(g1, MaxVehicles) EXCEPT !.id = 1],
                              [Chromosome(g2, MaxVehicles) EXCEPT !.id = 2]>>,
                 num_points |-> n]
    /\ fout = <<>>
    /\ EngineIdle

OrderCrossover ==
    /\ fn = "none"
    /\ \E cx \in OXCutPoints(Len(get_points(fin.chroms[1].genes))) :
       \E pair \in order_crossover_vrp(fin.chroms[1], fin.chroms[2], cx[1], cx[2]) :
          /\ fout' = pair
          /\ fn' = "order"
    /\ UNCHANGED <<fin, engineVars>>

PMXCrossover ==
    /\ fn = "none"
    /\ \E cx \in PMXCutPoints(Len(get_points(fin.chroms[1].genes))) :
          /\ PMXOutcome(fin.chroms[1], fin.chroms[2], cx[1], cx[2]) = "ok"
          /\ \E pair \in partially_mapped_crossover_vrp(fin.chroms[1], fin.chroms[2],
                                                            cx[1], cx[2]) :
                fout' = pair
          /\ fn' = "pmx"
    /\ UNCHANGED <<fin, engineVars>>

\* random.randint(0, size - 2) raises ValueError when parent1 has one point
PMXCrossoverRaises ==
    /\ fn = "none"
    /\ PMXCutPoints(Len(get_points(fin.chroms[1].genes))) = {}
    /\ fn' = "pmx_raised"
    /\ UNCHANGED <<fin, fout, engineVars>>

NextCross == OrderCrossover \/ PMXCrossover \/ PMXCrossoverRaises

SpecCross == InitCross /\ [][NextCross]_vars

ChildrenValid ==
    \A k \in 1..2 :
        /\ is_valid(fout[k].genes)
        /\ ExactlyOnce(fout[k].genes, fin.num_points)

\* C2: order_crossover_vrp on two valid parents over the same N returns, for
\* every choice of cut points, two children that pass is_valid() and hold
\* every point 0..N-1 exactly once.
C2_OrderCrossoverChildrenValid == fn = "order" => ChildrenValid

C2_Witness ==
    /\ fn = "order"
    /\ fin.num_points = MaxPoints
    /\ Len(get_routes(fin.chroms[1].genes)) >= 2
    /\ get_points(fout[1].genes) # get_points(fin.chroms[1].genes)
    /\ get_points(fout[1].genes) # get_points(fin.chroms[2].genes)
    /\ ChildrenValid

\* C3: partially_mapped_crossover_vrp on two valid parents over the same N
\* returns, for every choice of cut points, two children that hold every
\* point 0..N-1 exactly once and pass is_valid().
C3_PMXChildrenValid == fn = "pmx" => ChildrenValid

----------------------------------------------------------------------------
(* The engine at generation boundaries *)

\* initialize_population has returned, or an evolve_generation has
AtGenerationBoundary == pc \in {"loop", "done"}

\* C4: after initialize_population and after every evolve_generation, under
\* either crossover type, every selection type and every mix of mutations,
\* every chromosome of the population holds each point 0..N-1 exactly once.
C4_PopulationHoldsEachPointOnce ==
    AtGenerationBoundary =>
        \A i \in 1..Len(population) : ExactlyOnce(population[i].genes, cfg.num_points)

\* C5: after initialize_population and after every evolve_generation no
\* chromosome of the population has two adjacent sentinels, a leading
\* sentinel or a trailing sentinel, whatever mutations were applied.
C5_PopulationHasNoStraySeparators ==
    AtGenerationBoundary =>
        \A i \in 1..Len(population) : NoStraySeparators(population[i].genes)

\* the chromosome is in the population with this id, these genes, this fitness
CarriedOver(elite, pop) ==
    \E i \in 1..Len(pop) :
        /\ pop[i].id = elite.id
        /\ pop[i].genes = elite.genes
        /\ pop[i].fitness = elite.fitness

\* C6: with logging enabled, in every generation g >= 1 the
\* floor(population_size * elitism_rate) best chromosomes of generation g-1
\* are in the population with the same id, the same genes and the same
\* fitness.
C6_ElitesCarriedOverById ==
    (cfg.enable_logging /\ AtGenerationBoundary /\ current_generation >= 1) =>
        /\ Len(last_elite) = EliteSize(cfg)
        /\ \A k \in 1..Len(last_elite) : CarriedOver(last_elite[k], population)

\* C7: once run() has started on an engine with at least one point, one
\* vehicle, a population of one or more and a complete configuration, no
\* step of any generation raises.
C7_NoStepRaises == ValidConfig(cfg) => pc # "failed"

\* a configuration the contract says construction turns down
RejectedByContract(c) ==
    \/ c.population_size <= 0
    \/ c.num_vehicles <= 0
    \/ ~(FitnessWeightKeys \subseteq DOMAIN c.fitness_weights)
    \/ Len(c.mutation_types) # Len(c.mutation_weights)

\* C8: a configuration with population_size <= 0, no vehicle, a fitness
\* weight missing or mutation types and weights of different lengths is
\* rejected at construction: no engine is ever built from it.
C8_InvalidConfigRejectedAtConstruction ==
    RejectedByContract(cfg) => pc # "constructed"

\* the k-th callback call carries generation k-1 and was made on a sorted
\* population whose best is no better than the all-time best handed over
CallbackInOrder(k) ==
    /\ callbacks[k].generation = k - 1
    /\ callbacks[k].sorted
    /\ ~RatLess(callbacks[k].population_best, callbacks[k].best.fitness)
    /\ \A j \in 1..k : ~RatLess(callbacks[j].population_best, callbacks[k].best.fitness)

\* C9: run() performs exactly num_generations generations with no early
\* stop, calls the callback num_generations + 1 times with the generation
\* indices 0, 1, ..., num_generations in order, each call after the sort and
\* the update of the all-time best, and returns the all-time best.
C9_RunPerformsAllGenerations ==
    /\ \A k \in 1..Len(callbacks) : CallbackInOrder(k)
    /\ pc = "loop" => Len(callbacks) = current_generation + 1
    /\ pc = "done" =>
          /\ current_generation = cfg.num_generations
          /\ Len(callbacks) = cfg.num_generations + 1
          /\ best_chromosome = callbacks[Len(callbacks)].best
          /\ \E k \in 1..Len(callbacks) :
                callbacks[k].population_best = best_chromosome.fitness

C9_Witness ==
    /\ pc = "done"
    /\ cfg.num_generations = NumGenerations
    /\ Len(callbacks) = NumGenerations + 1
    /\ generations_without_improvement >= 1
    /\ callbacks[1].best.fitness # best_chromosome.fitness

\* C10: after initialize_population and after every evolve_generation the
\* population is sorted ascending by fitness.
C10_PopulationSortedAtBoundaries ==
    AtGenerationBoundary =>
        \A i \in 1..Len(population) : \A j \in (i + 1)..Len(population) :
            ~RatLess(population[j].fitness, population[i].fitness)

C10_Witness ==
    /\ pc = "loop"
    /\ current_generation = NumGenerations
    /\ Len(population) = PopulationSize
    /\ RatLess(population[1].fitness, population[PopulationSize].fitness)

\* C11: after every evolve_generation the population holds exactly
\* population_size chromosomes, for every elitism_rate in [0, 1]; the new
\* population never outgrows population_size: when the first child of the
\* last pair fills it, the second child is dropped.
C11_PopulationSizeKept ==
    /\ pc \in {"select", "mutate1", "mutate2", "loop", "done"} =>
          Len(new_population) <= cfg.population_size
    /\ (AtGenerationBoundary /\ current_generation >= 1) =>
          Len(population) = cfg.population_size

\* a generation ended in which one elite left room for one child only
C11_Witness ==
    /\ pc = "loop"
    /\ current_generation >= 1
    /\ EliteSize(cfg) = 1
    /\ Len(population) = PopulationSize
    /\ \E i \in 1..Len(population) : population[i].generation = current_generation

\* C12: at the end of every generation, if the best fitness of the new
\* population is strictly lower than that of the all-time best, the
\* all-time best becomes a copy of the new best and the stagnation counter
\* is reset to 0; otherwise the all-time best is unchanged and the counter
\* grows by 1.  The all-time best fitness never increases.
C12_BestUpdatedOrCounterIncremented ==
    [][/\ (pc = "select" /\ pc' = "loop") =>
            LET new_best == population'[1]
            IN  /\ \A i \in 1..Len(population') :
                      ~RatLess(population'[i].fitness, new_best.fitness)
                /\ IF RatLess(new_best.fitness, best_chromosome.fitness)
                   THEN /\ best_chromosome' = copy(new_best)
                        /\ generations_without_improvement' = 0
                   ELSE /\ best_chromosome' = best_chromosome
                        /\ generations_without_improvement' =
                              generations_without_improvement + 1
       /\ ~RatLess(best_chromosome.fitness, best_chromosome'.fitness)]_vars

\* generation 1 improved on the seed population, generation 2 did not
C12_Witness ==
    /\ pc = "loop"
    /\ current_generation = NumGenerations
    /\ generations_without_improvement = 1
    /\ RatLess(callbacks[2].best.fitness, callbacks[1].best.fitness)
    /\ best_chromosome = callbacks[2].best

----------------------------------------------------------------------------
(* tournament_selection on its own: a population of evaluated chromosomes *)
(* and a tournament size, then one call                                   *)

SelectionPopulations ==
    UNION {[1..n -> {[NoChromosome EXCEPT !.fitness = RatInt(f)] : f \in 1..MaxFitness}] :
             n \in 1..(PopulationSize + 1)}

InitSelect ==
    /\ fn = "none"
    /\ fin \in {[population |-> pop, tournament_size |-> k] :
                  pop \in SelectionPopulations, k \in 1..(PopulationSize + 2)}
    /\ fout = <<>>
    /\ EngineIdle

TournamentSelection ==
    /\ fn = "none"
    /\ \E sample \in TournamentSamples(fin.population, fin.tournament_size) :
          \E winner \in TournamentWinners(fin.population, sample) :
              fout' = [sample |-> sample, winner |-> winner]
    /\ fn' = "tournament"
    /\ UNCHANGED <<fin, engineVars>>

NextSelect == TournamentSelection

SpecSelect == InitSelect /\ [][NextSelect]_vars

\* C13: tournament_selection returns a member of the population whose
\* fitness is the minimum over the sampled chromosomes, and a chromosome of
\* globally minimal fitness when tournament_size is at least the size of
\* the population.
C13_TournamentReturnsSampleMinimum ==
    fn = "tournament" =>
        LET pop == fin.population
        IN  /\ fout.winner \in 1..Len(pop)
            /\ fout.winner \in fout.sample
            /\ \A j \in fout.sample :
                  ~RatLess(pop[j].fitness, pop[fout.winner].fitness)
            /\ fin.tournament_size >= Len(pop) =>
                  \A j \in 1..Len(pop) :
                      ~RatLess(pop[j].fitness, pop[fout.winner].fitness)

\* a tournament smaller than the population won by a chromosome that is
\* not the global best
C13_Witness ==
    /\ fn = "tournament"
    /\ Cardinality(fout.sample) = 2
    /\ Len(fin.population) = 3
    /\ \E j \in 1..3 : RatLess(fin.population[j].fitness, fin.population[fout.winner].fitness)
    /\ \E j \in fout.sample : RatLess(fin.population[fout.winner].fitness, fin.population[j].fitness)

----------------------------------------------------------------------------
(* calculate_diversity on its own: any population, valid or not *)

InitDiversity ==
    /\ fn = "none"
    /\ fin \in {[population |-> pop] :
                  pop \in SeqsUpTo({Chromosome(genes, 1) :
                                      genes \in SeqsUpTo((0..(MaxPoints - 1)) \cup {SEP},
                                                         MaxDiversityGenes)},
                                   MaxDiversityPopulation)}
    /\ fout = <<>>
    /\ EngineIdle

CalculateDiversity ==
    /\ fn = "none"
    /\ fn' = "diversity"
    /\ fout' = calculate_diversity(fin.population)
    /\ UNCHANGED <<fin, engineVars>>

NextDiversity == CalculateDiversity

SpecDiversity == InitDiversity /\ [][NextDiversity]_vars

\* C14: calculate_diversity returns a value in [0, 1] for every population,
\* chromosomes with different numbers of points included, and exactly 0 for
\* a population of identical chromosomes and for one of fewer than two.
C14_DiversityInUnitInterval ==
    fn = "diversity" =>
        LET pop == fin.population
        IN  /\ ~RatLess(fout, RatInt(0))
            /\ ~RatLess(RatInt(1), fout)
            /\ Len(pop) < 2 => fout = RatInt(0)
            /\ (\A i, j \in 1..Len(pop) : pop[i] = pop[j]) => fout = RatInt(0)

\* the first chromosome is the shortest and the average distance exceeds
\* its point count
C14_Witness ==
    /\ fn = "diversity"
    /\ Len(fin.population) = MaxDiversityPopulation
    /\ RatLess(RatInt(1), DiversityRatio(fin.population))
    /\ fout = RatInt(1)

----------------------------------------------------------------------------
(* The records of the logger *)

\* C15: with logging enabled every chromosome a log record refers to has an
\* id: the best chromosome of each generation record, both parents of each
\* crossover record, the chromosome of each significant event.
C15_LoggedChromosomesHaveIds ==
    cfg.enable_logging =>
        /\ \A k \in 1..Len(logger.generation_history) :
              logger.generation_history[k].best_chromosome_id # 0
        /\ \A id \in DOMAIN logger.genealogy :
              logger.genealogy[id].type = "crossover" =>
                  /\ logger.genealogy[id].parent1_id # 0
                  /\ logger.genealogy[id].parent2_id # 0
        /\ \A k \in 1..Len(logger.significant_events) :
              logger.significant_events[k].chromosome_id # 0

\* the genealogy record log_mutation has to store for this mutation
MutationRecord(original, mutated) ==
    [id |-> mutated.id, generation |-> current_generation, type |-> "mutation",
     parent_id |-> original.id, mutation_type |-> MutationTag(mutated),
     fitness_before |-> original.fitness, fitness_after |-> mutated.fitness,
     fitness_change |-> RatAdd(mutated.fitness, RatScale(-1, original.fitness))]

\* C16: every mutation record of the genealogy carries as parent_id the id
\* of the chromosome that was mutated, with the mutation tag, the parent's
\* fitness as fitness_before, the mutant's as fitness_after and their
\* difference as fitness_change.
C16_MutationRecordNamesParent ==
    [][(/\ cfg.enable_logging
        /\ pc = "mutate1" /\ pc' = "mutate2"
        /\ logger'.total_mutations = logger.total_mutations + 1) =>
            /\ children'[1].id \in DOMAIN logger'.genealogy
            /\ logger'.genealogy[children'[1].id] =
                  MutationRecord(children[1], children'[1])]_vars

----------------------------------------------------------------------------
(* is_valid and get_routes on their own: any gene list over the points of *)
(* the largest problem, read against a problem of num_points points       *)

ChromosomeInputs ==
    {[genes |-> genes, num_points |-> n] :
        genes \in SeqsUpTo((0..(MaxPoints - 1)) \cup {SEP}, MaxGenes),
        n \in 1..MaxPoints}

InitChromosome ==
    /\ fn = "none"
    /\ fin \in ChromosomeInputs
    /\ fout = <<>>
    /\ EngineIdle

IsValid ==
    /\ fn = "none"
    /\ fn' = "is_valid"
    /\ fout' = is_valid(fin.genes)
    /\ UNCHANGED <<fin, engineVars>>

GetRoutes ==
    /\ fn = "none"
    /\ fn' = "get_routes"
    /\ fout' = get_routes(fin.genes)
    /\ UNCHANGED <<fin, engineVars>>

NextChromosome == IsValid \/ GetRoutes

SpecChromosome == InitChromosome /\ [][NextChromosome]_vars

\* C17: is_valid() is true if and only if the non-sentinel values are
\* exactly the points 0..N-1, none twice and none left out, and no two
\* sentinels are adjacent.
C17_IsValidIffExactUniverse ==
    fn = "is_valid" =>
        (fout <=> (/\ ExactlyOnce(fin.genes, fin.num_points)
                   /\ \A i \in 1..(Len(fin.genes) - 1) :
                         ~(fin.genes[i] = SEP /\ fin.genes[i + 1] = SEP)))

\* C19: for every valid chromosome over N points get_routes() returns only
\* non-empty routes whose concatenation is get_points(): every point
\* 0..N-1 is in exactly one route, exactly once.
C19_RoutesPartitionPoints ==
    (fn = "get_routes" /\ is_valid(fin.genes) /\ ExactlyOnce(fin.genes, fin.num_points)) =>
        /\ \A r \in 1..Len(fout) : fout[r] # <<>>
        /\ Flatten(fout) = get_points(fin.genes)
        /\ \A p \in 0..(fin.num_points - 1) :
              /\ Cardinality({r \in 1..Len(fout) : Count(fout[r], p) >= 1}) = 1
              /\ \A r \in 1..Len(fout) : Count(fout[r], p) <= 1

\* a valid chromosome over all the points, split in two routes or more
C19_Witness ==
    /\ fn = "get_routes"
    /\ fin.num_points = MaxPoints
    /\ is_valid(fin.genes) /\ ExactlyOnce(fin.genes, fin.num_points)
    /\ Len(fout) >= 2

----------------------------------------------------------------------------
(* calculate_fitness on its own: one chromosome evaluated against two      *)
(* instances whose point weights differ at one point                       *)

InitFitness ==
    /\ fn = "none"
    /\ fin \in {[genes |-> g,
                 config |-> [QuietConfig EXCEPT !.num_vehicles = v,
                                                !.fitness_weights.capacity = wc],
                 weight_kg1 |-> weight_kg,
                 weight_kg2 |-> [weight_kg EXCEPT ![p] = @ + extra]] :
                   g \in {x \in ValidGenes(MaxPoints) : NoStraySeparators(x)},
                   v \in 1..MaxVehicles,
                   wc \in {1, DefaultFitnessWeights.capacity},
                   weight_kg \in [0..(MaxPoints - 1) -> 1..MaxPointWeight],
                   p \in 0..(MaxPoints - 1),
                   extra \in 1..MaxPointWeight}
    /\ fout = <<>>
    /\ EngineIdle

\* calculate_fitness with each instance: the fitness and its components
CalculateFitness ==
    /\ fn = "none"
    /\ fn' = "fitness"
    /\ fout' = [i \in 1..2 |->
                  LET components ==
                        FitnessComponents(fin.genes, fin.config,
                                          IF i = 1 THEN fin.weight_kg1 ELSE fin.weight_kg2)
                  IN  [fitness |-> WeightedFitness(fin.config.fitness_weights, components),
                       components |-> components]]
    /\ UNCHANGED <<fin, engineVars>>

NextFitness == CalculateFitness

SpecFitness == InitFitness /\ [][NextFitness]_vars

\* kg by which the r-th route is over the weight capacity of its vehicle
Overage(r, weight_kg) ==
    RouteLoad(get_routes(fin.genes)[r], weight_kg)
        - VehicleCapacityKg(RouteVehicle(r, fin.config))

\* the two evaluations agree on every component but the capacity penalty
OtherComponentsEqual ==
    /\ fout[1].components.total_distance = fout[2].components.total_distance
    /\ fout[1].components.autonomy_penalty = fout[2].components.autonomy_penalty
    /\ fout[1].components.priority_penalty = fout[2].components.priority_penalty
    /\ fout[1].components.balance_penalty = fout[2].components.balance_penalty
    /\ fout[1].components.num_vehicles = fout[2].components.num_vehicles

\* only route r differs in load, and it is over capacity by more in the
\* second evaluation than in the first, where it is over capacity too
LargerOverage(r) ==
    /\ OtherComponentsEqual
    /\ \A o \in 1..Len(get_routes(fin.genes)) :
          o # r => Overage(o, fin.weight_kg1) = Overage(o, fin.weight_kg2)
    /\ Overage(r, fin.weight_kg1) > 0
    /\ Overage(r, fin.weight_kg2) > Overage(r, fin.weight_kg1)

\* C20: with a positive capacity weight, when one route is over its
\* vehicle's weight capacity by a strictly larger positive amount and every
\* other component is equal, the fitness is strictly larger; routes at or
\* under capacity contribute no capacity penalty.
C20_FitnessGrowsWithOverage ==
    fn = "fitness" =>
        LET routes == get_routes(fin.genes)
        IN  /\ \A r \in 1..Len(routes) :
                  LargerOverage(r) => RatLess(fout[1].fitness, fout[2].fitness)
            /\ (\A r \in 1..Len(routes) :
                    /\ Overage(r, fin.weight_kg1) <= 0
                    /\ RouteVolume(routes[r])
                          <= VehicleCapacityVolumeM3(RouteVehicle(r, fin.config)))
                  => fout[1].components.capacity_penalty = 0

C20_Witness ==
    /\ fn = "fitness"
    /\ fin.config.fitness_weights.capacity = 1
    /\ \E r \in 1..Len(get_routes(fin.genes)) : LargerOverage(r)
    /\ RatLess(fout[1].fitness, fout[2].fitness)

\* the distance of the instance between two stops, SEP standing for the depot
Leg(a, b) ==
    IF a = SEP /\ b = SEP THEN 0
    ELSE IF a = SEP THEN DepotDistance(b)
         ELSE IF b = SEP THEN DepotDistance(a)
              ELSE IF a = b THEN 0 ELSE PointDistance(a, b)

\* the length of the tour depot, route, depot
RECURSIVE TourLength(_)
TourLength(stops) ==
    IF Len(stops) < 2 THEN 0
    ELSE Leg(stops[1], stops[2]) + TourLength(Tail(stops))

\* C21: the recorded distance of every route is depot to first point, plus
\* the consecutive legs, plus last point to depot, and total_distance is
\* the sum over the routes; one vehicle and the chromosome [A, B, C] give
\* one route of distance d(D,A) + d(A,B) + d(B,C) + d(C,D).
C21_RouteDistanceIsTourLength ==
    fn = "fitness" =>
        LET routes == get_routes(fin.genes)
            recorded == fout[1].components.route_distances
        IN  /\ Len(recorded) = Len(routes)
            /\ \A r \in 1..Len(routes) :
                  recorded[r] = TourLength(<<SEP>> \o routes[r] \o <<SEP>>)
            /\ fout[1].components.total_distance = SumSeq(recorded)
            /\ (fin.config.num_vehicles = 1 /\ SEP \notin Range(fin.genes))
                  => /\ Len(recorded) = 1
                     /\ recorded[1] = DepotDistance(fin.genes[1])
                                        + PointDistance(fin.genes[1], fin.genes[2])
                                        + PointDistance(fin.genes[2], fin.genes[3])
                                        + DepotDistance(fin.genes[3])

\* one vehicle and the three points in one route
C21_Witness ==
    /\ fn = "fitness"
    /\ fin.config.num_vehicles = 1
    /\ fin.genes = <<1, 0, 2>>
    /\ fout[1].components.route_distances = <<3 + 3 + 5 + 4>>

----------------------------------------------------------------------------
(* The objects an operator writes to.  The members of the population are   *)
(* the objects 1..Len(population); every other reference is an object made *)
(* during the call.  Each call yields the population objects as they are   *)
(* after it.                                                                *)

\* the same object handed back
CopyRef_Same(heap, r) == r

\* Chromosome.copy(), line 165: new_chrom is a new object
CopyRef(heap, r) == Len(heap) + 1

\* Chromosome(genes, num_vehicles) in the crossovers, lines 96-97, 194-195
NewRef(heap) == Len(heap) + 1

\* an attribute write through reference r, seen from the population
Written(heap, r, c) == IF r \in 1..Len(heap) THEN [heap EXCEPT ![r] = c] ELSE heap

FrameConfigs ==
    {[DefaultConfig EXCEPT !.num_points = n, !.num_vehicles = v, !.crossover_type = x,
                           !.enable_logging = l] :
        n \in 1..MaxPoints, v \in 1..(MaxVehicles - 1), x \in {"order", "pmx"},
        l \in BOOLEAN}

\* the engine inside evolve_generation of generation 1, before any child
InitFrame ==
    /\ fn = "none"
    /\ fout = <<>>
    /\ pc = "idle"
    /\ cfg \in FrameConfigs
    /\ \E genes_list \in [1..cfg.population_size ->
                            create_random(cfg.num_points, cfg.num_vehicles)] :
          population = SortPopulation(SeedPopulation(genes_list))
    /\ fin = population
    /\ logger = IF cfg.enable_logging
                THEN [NoLogger EXCEPT !.chromosome_counter = cfg.population_size]
                ELSE NoLogger
    /\ current_generation = 1
    /\ new_population = <<>>
    /\ children = <<>>
    /\ best_chromosome = NoChromosome
    /\ generations_without_improvement = 0
    /\ callbacks = <<>>
    /\ last_elite = <<>>
    /\ error = ""

\* crossover(parent1, parent2): the children are new objects; fitness, ids
\* and generation are written to them
CrossoverCall ==
    /\ fn = "none"
    /\ \E p1, p2 \in 1..Len(population) :
       \E out \in crossover(population[p1], population[p2]) :
          /\ out.status = "ok"
          /\ population' = Written(Written(population, NewRef(population), out.child1),
                                   NewRef(population) + 1, out.child2)
          /\ fout' = <<out.child1, out.child2>>
          /\ logger' = out.logger
    /\ fn' = "crossover"
    /\ UNCHANGED <<fin, pc, cfg, new_population, children, best_chromosome,
                   current_generation, generations_without_improvement, callbacks,
                   last_elite, error>>

\* lines 228-230: the children are copies of the parents, evaluated
CloneCall ==
    /\ fn = "none"
    /\ \E p1, p2 \in 1..Len(population) :
          LET child1 == Evaluated(copy(population[p1]), cfg)
              child2 == Evaluated(copy(population[p2]), cfg)
              heap1 == Written(population, CopyRef(population, p1), child1)
          IN  /\ population' = Written(heap1, CopyRef(heap1, p2), child2)
              /\ fout' = <<child1, child2>>
    /\ fn' = "clone"
    /\ UNCHANGED <<fin, pc, cfg, new_population, children, best_chromosome,
                   current_generation, generations_without_improvement, logger,
                   callbacks, last_elite, error>>

\* mutate(chromosome): genes, tag, fitness, id and generation are written to
\* mutant, the copy taken at the head of each mutation operator
MutateCall ==
    /\ fn = "none"
    /\ \E r \in 1..Len(population) :
       \E out \in mutate(population[r]) :
          /\ out.status = "ok"
          /\ population' = Written(population, CopyRef(population, r), out.chrom)
          /\ fout' = <<out.chrom>>
          /\ logger' = out.logger
    /\ fn' = "mutate"
    /\ UNCHANGED <<fin, pc, cfg, new_population, children, best_chromosome,
                   current_generation, generations_without_improvement, callbacks,
                   last_elite, error>>

NextFrame == CrossoverCall \/ CloneCall \/ MutateCall

SpecFrame == InitFrame /\ [][NextFrame]_vars

----------------------------------------------------------------------------
(* SpecMutation: inversion_mutation and move_mutation on a valid chromosome *)

InitMutation ==
    /\ fn = "none"
    /\ \E n \in 1..MaxPoints : \E g \in ValidGenes(n) :
          fin = [chromosome |-> [Chromosome(g, MaxVehicles) EXCEPT !.id = 1],
                 num_points |-> n]
    /\ fout = <<>>
    /\ EngineIdle

\* inversion_mutation with the window drawn; the window is [0, 0) when the
\* copy is returned as it is
InversionMutation ==
    /\ fn = "none"
    /\ LET mutant == copy(fin.chromosome)
           points == get_points(mutant.genes)
       IN  IF Len(points) < 2
           THEN fout' = [idx1 |-> 0, idx2 |-> 0, status |-> "ok", chrom |-> mutant]
           ELSE \E idx \in InversionWindows(points) :
                   LET out == InversionOutcome(mutant, idx[1], idx[2])
                   IN  fout' = [idx1 |-> idx[1], idx2 |-> idx[2], status |-> out.status,
                                chrom |-> out.chrom]
    /\ fn' = "inversion"
    /\ UNCHANGED <<fin, engineVars>>

\* move_mutation with the choices drawn; no choice when the chromosome has
\* fewer than two routes and swap_mutation is applied
MoveMutation ==
    /\ fn = "none"
    /\ LET mutant == copy(fin.chromosome)
           routes == get_routes(mutant.genes)
       IN  IF Len(routes) < 2
           THEN \E out \in swap_mutation(mutant) :
                   fout' = [choice |-> <<>>, status |-> out.status, chrom |-> out.chrom]
           ELSE \E m \in MoveChoices(routes) :
                \E out \in MoveOutcomes(mutant, fin.num_points, m) :
                   fout' = [choice |-> m, status |-> out.status, chrom |-> out.chrom]
    /\ fn' = "move"
    /\ UNCHANGED <<fin, engineVars>>

NextMutation == InversionMutation \/ MoveMutation

SpecMutation == InitMutation /\ [][NextMutation]_vars

\* C23: inversion_mutation on a valid chromosome, for every window
\* [idx1, idx2) of its points, returns a chromosome with every sentinel at
\* the gene index it had, the points of the window in reversed order, the
\* genes outside the window unchanged, and is_valid() true.
C23_InversionKeepsSentinelsInPlace ==
    (fn = "inversion" /\ fout.idx2 > fout.idx1) =>
        /\ fout.status = "ok"
        /\ LET before == fin.chromosome.genes
               after == fout.chrom.genes
               gene_idx1 == PointIndices(before)[fout.idx1 + 1]
               gene_idx2 == PointIndices(before)[fout.idx2]
           IN  /\ Len(after) = Len(before)
               /\ \A i \in 1..Len(before) : (after[i] = SEP) <=> (before[i] = SEP)
               /\ \A i \in 1..Len(before) :
                     (i < gene_idx1 \/ i > gene_idx2) => after[i] = before[i]
               /\ get_points(SubSeq(after, gene_idx1, gene_idx2))
                    = Reverse(get_points(SubSeq(before, gene_idx1, gene_idx2)))
               /\ is_valid(after)

\* the routes with point p taken out, routes left empty dropped
WithoutPoint(routes, p) ==
    SelectSeq([i \in 1..Len(routes) |-> SelectSeq(routes[i], LAMBDA q : q # p)],
              LAMBDA route : route # <<>>)

\* the route of point p
RouteOf(routes, p) == CHOOSE i \in 1..Len(routes) : p \in Range(routes[i])

\* point p left its route for another one, and nothing else changed
MovedToOtherRoute(before, after, p) ==
    /\ WithoutPoint(after, p) = WithoutPoint(before, p)
    /\ \E j \in 1..Len(before) :
          /\ j # RouteOf(before, p)
          /\ SelectSeq(after[RouteOf(after, p)], LAMBDA q : q # p) = before[j]
    /\ Len(after) = IF before[RouteOf(before, p)] = <<p>> THEN Len(before) - 1
                    ELSE Len(before)

\* C24: move_mutation on a valid chromosome with at least two routes takes
\* exactly one point out of its route and puts it into a different route,
\* keeps the order of all other points inside their routes, drops the
\* source route when it becomes empty (one route fewer at most), and
\* returns a valid chromosome over the same points.
C24_MoveMutationMovesOnePoint ==
    (fn = "move" /\ Len(get_routes(fin.chromosome.genes)) >= 2) =>
        LET before == get_routes(fin.chromosome.genes)
            after == get_routes(fout.chrom.genes)
        IN  /\ fout.status = "ok"
            /\ is_valid(fout.chrom.genes)
            /\ ExactlyOnce(fout.chrom.genes, fin.num_points)
            /\ NoStraySeparators(fout.chrom.genes)
            /\ \E p \in 0..(fin.num_points - 1) : MovedToOtherRoute(before, after, p)

\* the only point of a route of three is moved, and two routes are left
C24_Witness ==
    /\ fn = "move"
    /\ Len(get_routes(fin.chromosome.genes)) = 3
    /\ Len(get_routes(fout.chrom.genes)) = 2
    /\ fout.chrom.mutation_applied = "MOVE"
    /\ is_valid(fout.chrom.genes)

----------------------------------------------------------------------------
(* SpecParents: select_parents step by step, the while loop of lines       *)
(* 139-145 one iteration at a time                                         *)

\* the loop gives up after the first re-draw
LoopContinues_OneRetry(pop, parent1, parent2, attempts) ==
    pop[parent2].id = pop[parent1].id /\ attempts < 1

\* line 140: while parent2.id == parent1.id and attempts < 10
LoopContinues(pop, parent1, parent2, attempts) ==
    pop[parent2].id = pop[parent1].id /\ attempts < MaxSelectAttempts

\* populations of 1..PopulationSize + 1 evaluated chromosomes: numbered by
\* the logger, all without id (no logger), or numbered but for an elite
\* copy in front
ParentPopulations ==
    UNION {{[i \in 1..n |-> [NoChromosome EXCEPT !.fitness = RatInt(f[i]), !.id = ids[i]]] :
              f \in [1..n -> 1..MaxFitness],
              ids \in {[i \in 1..n |-> i], [i \in 1..n |-> 0],
                       [i \in 1..n |-> IF i = 1 THEN 0 ELSE i]}} :
           n \in 1..(PopulationSize + 1)}

InitParents ==
    /\ fn = "none"
    /\ fin \in {[population |-> pop, tournament_size |-> k, selection_type |-> sel] :
                  pop \in ParentPopulations, k \in 1..(PopulationSize + 1),
                  sel \in {"tournament", "roulette"}}
    /\ fout = <<>>
    /\ EngineIdle

\* lines 125-136: the first draw of both parents
DrawParents ==
    /\ fn = "none"
    /\ LET draw == IF fin.selection_type = "tournament"
                   THEN tournament_selection(fin.population, fin.tournament_size)
                   ELSE roulette_selection(fin.population)
       IN  \E i \in draw : \E j \in draw :
              fout' = [parent1 |-> i, parent2 |-> j, attempts |-> 0, same_id |-> 0]
    /\ fn' = "loop"
    /\ UNCHANGED <<fin, engineVars>>

\* lines 140-145: one more tournament for parent2; same_id counts the
\* re-draws that came back with parent1's id
RedrawParent2 ==
    /\ fn = "loop"
    /\ LoopContinues(fin.population, fout.parent1, fout.parent2, fout.attempts)
    /\ \E j \in tournament_selection(fin.population, fin.tournament_size) :
          fout' = [fout EXCEPT
                     !.parent2 = j,
                     !.attempts = @ + 1,
                     !.same_id = IF fin.population[j].id = fin.population[fout.parent1].id
                                 THEN @ + 1 ELSE @]
    /\ UNCHANGED <<fn, fin, engineVars>>

\* line 147: return parent1, parent2
ReturnParents ==
    /\ fn = "loop"
    /\ ~LoopContinues(fin.population, fout.parent1, fout.parent2, fout.attempts)
    /\ fn' = "returned"
    /\ UNCHANGED <<fin, fout, engineVars>>

NextParents == DrawParents \/ RedrawParent2 \/ ReturnParents

\* the statements of select_parents run one after the other, none waits
SpecParents == InitParents /\ [][NextParents]_vars /\ WF_vars(NextParents)

ParentsReturnedAsClaimed ==
    /\ fn \in {"loop", "returned"} => fout.attempts <= MaxSelectAttempts
    /\ fn = "returned" =>
          /\ fout.parent1 \in 1..Len(fin.population)
          /\ fout.parent2 \in 1..Len(fin.population)
          /\ fin.population[fout.parent1].id = fin.population[fout.parent2].id
                => (fout.attempts = MaxSelectAttempts /\ fout.same_id = MaxSelectAttempts)

----------------------------------------------------------------------------
(* The lineage walk over the genealogy of a finished run *)

\* the ids of the seed population
SeedIds == 1..cfg.population_size

\* C26: for every id recorded in the genealogy, get_chromosome_lineage
\* terminates and returns the records of the chromosome and its ancestors
\* oldest first, each record the parent (parent1_id of a crossover record,
\* parent_id of a mutation record) of the next, the walk stopping at the id
\* of a chromosome of the seed population.
C26_LineageReachesSeed ==
    fn = "lineage" =>
        /\ fout.status = "ok"
        /\ fout.lineage # <<>>
        /\ fout.lineage[Len(fout.lineage)].id = fin
        /\ \A k \in 1..(Len(fout.lineage) - 1) :
              LET child == fout.lineage[k + 1]
              IN  fout.lineage[k].id = IF child.type = "crossover" THEN child.parent1_id
                                       ELSE child.parent_id
        /\ fout.stopped_at \in SeedIds

----------------------------------------------------------------------------
(* Fitness of the members of the population *)

\* C27: whenever select_parents draws from the population, and at every
\* generation boundary, every chromosome of the population (elite copy,
\* crossover child, cloned parent or mutant) has a finite fitness equal to
\* calculate_fitness of its current genes.
C27_PopulationFitnessIsCurrent ==
    (pc = "select" \/ AtGenerationBoundary) =>
        \A i \in 1..Len(population) :
            /\ population[i].fitness.den # 0
            /\ population[i].fitness = calculate_fitness(population[i].genes, cfg)

\* parents are drawn in the second generation from a population that holds
\* an elite copy and a mutant whose genes differ from the elite's
C27_Witness ==
    /\ pc = "select"
    /\ current_generation = 2
    /\ EliteSize(cfg) = 1
    /\ \E i, j \in 1..Len(population) :
          /\ population[i].mutation_applied # "none"
          /\ population[j].mutation_applied = "none"
          /\ population[i].genes # population[j].genes
          /\ population[i].fitness # population[j].fitness

----------------------------------------------------------------------------
(* create_random on its own: every problem size and fleet size, every     *)
(* shuffle and every sample of separator positions                        *)

MaxRandomPoints == 4

InitRandom ==
    /\ fn = "none"
    /\ fin \in [num_points : 1..MaxRandomPoints, num_vehicles : 1..MaxVehicles]
    /\ fout = <<>>
    /\ EngineIdle

CreateRandom ==
    /\ fn = "none"
    /\ fn' = "create_random"
    /\ \E genes \in create_random(fin.num_points, fin.num_vehicles) :
          fout' = Chromosome(genes, fin.num_vehicles)
    /\ UNCHANGED <<fin, engineVars>>

NextRandom == CreateRandom

SpecRandom == InitRandom /\ [][NextRandom]_vars

\* C28: create_random(num_points, num_vehicles) with both at least 1
\* returns a valid chromosome over the points 0..num_points-1 with exactly
\* min(num_points, num_vehicles) routes; when num_points >= num_vehicles
\* the route sizes differ by at most one and the first
\* (num_points mod num_vehicles) routes hold the extra point.
C28_CreateRandomShape ==
    fn = "create_random" =>
        LET n == fin.num_points
            v == fin.num_vehicles
            routes == get_routes(fout.genes)
        IN  /\ is_valid(fout.genes)
            /\ ExactlyOnce(fout.genes, n)
            /\ fout.num_vehicles = v
            /\ Len(routes) = Min2(n, v)
            /\ n >= v =>
                  /\ \A i, j \in 1..Len(routes) :
                        Len(routes[i]) - Len(routes[j]) \in {-1, 0, 1}
                  /\ \A i \in 1..Len(routes) :
                        Len(routes[i]) = (n \div v) + (IF i <= n % v THEN 1 ELSE 0)

\* four points shuffled and split among three vehicles: blocks of 2, 1, 1
C28_Witness ==
    /\ fn = "create_random"
    /\ fin.num_points = 4
    /\ fin.num_vehicles = 3
    /\ fout.genes = <<2, 0, SEP, 3, SEP, 1>>

\* two points and three vehicles: one separator, two routes of one point
C28_WitnessFewPoints ==
    /\ fn = "create_random"
    /\ fin.num_points = 2
    /\ fin.num_vehicles = 3
    /\ fout.genes = <<1, SEP, 0>>

----------------------------------------------------------------------------
(* The logger's id counter and genealogy along a run *)

IdsOf(chromosomes) ==
    {chromosomes[i].id : i \in 1..Len(chromosomes)} \ {0}

\* every id carried by a chromosome the engine holds or by a record
IdsInUse ==
    IdsOf(population) \cup IdsOf(new_population) \cup IdsOf(children)
        \cup DOMAIN logger.genealogy

\* a step hands out exactly the ids that follow the counter, in order
IdsHandedOutInOrder ==
    /\ logger'.chromosome_counter >= logger.chromosome_counter
    /\ IdsInUse' \ IdsInUse
          = (logger.chromosome_counter + 1)..logger'.chromosome_counter

GenealogyKept ==
    \A id \in DOMAIN logger.genealogy :
        /\ id \in DOMAIN logger'.genealogy
        /\ logger'.genealogy[id] = logger.genealogy[id]

CounterEquation ==
    (cfg.enable_logging /\ pc \notin {"new", "constructed"}) =>
        /\ logger.chromosome_counter
              = cfg.population_size + 2 * logger.total_crossovers
                                    + logger.total_mutations
        /\ IdsInUse \subseteq 1..logger.chromosome_counter

----------------------------------------------------------------------------
(* Routes and vehicles *)

\* every chromosome the engine holds: the population, the population being
\* built and the children on their way into it
HeldChromosomes == population \o new_population \o children

RoutesWithinFleet(c) ==
    LET routes == get_routes(c.genes)
    IN  /\ Len(routes) <= cfg.num_vehicles
        /\ Len(routes) <= Min2(cfg.num_points, cfg.num_vehicles)
        /\ \A i, j \in 1..Len(routes) :
              RouteVehicle(i, cfg) = RouteVehicle(j, cfg) => i = j

\* C30: in every generation every chromosome of the population has at most
\* num_vehicles non-empty routes (no crossover, mutation or repair raises
\* the route count above that of the seed population), so route index mod
\* vehicle count never gives two routes of one chromosome the same vehicle.
C30_RoutesWithinFleet ==
    \A k \in 1..Len(HeldChromosomes) : RoutesWithinFleet(HeldChromosomes[k])

\* a finished run with three points and three vehicles whose population
\* holds a chromosome of three routes next to a mutant with fewer
C30_Witness ==
    /\ pc = "done"
    /\ cfg.num_points = 3
    /\ cfg.num_vehicles = 3
    /\ \E i, j \in 1..Len(population) :
          /\ Len(get_routes(population[i].genes)) = 3
          /\ population[j].mutation_applied # "none"
          /\ Len(get_routes(population[j].genes)) < 3

====
